---- MODULE Spec2Model ----
(***************************************************************************)
(* State machine of the dao-admin canister: src/src/state.rs (the State    *)
(* aggregate and its methods, the StableState snapshot) and src/src/lib.rs *)
(* (the endpoints, their access checks and the upgrade hooks).             *)
(*                                                                         *)
(* Conventions.  Option<T> is a sequence of length at most one.  A Vec is  *)
(* a sequence.  A BTreeMap is a function on its key set, iterated in key   *)
(* order.  Strings that the code lowercases or searches (email, name,      *)
(* company, search term) are sequences of one-character strings, so that   *)
(* to_lowercase and contains are computed; all other strings are opaque.   *)
(* The clock is counted in seconds instead of nanoseconds.                 *)
(***************************************************************************)
EXTENDS Integers, Sequences, FiniteSets, TLC

VARIABLES
    \* the fields of State (state.rs:17-60)
    controllers, admins, authorized_canisters, admin_permissions,
    rate_limit_buckets,
    contacts, contacts_by_email, contacts_by_user, next_contact_id,
    deals, deals_by_contact, next_deal_id,
    transactions, next_transaction_id,
    activity_log, metrics_history,
    feature_flags,
    audit_log, next_audit_log_id,
    \* ic_cdk::api::time(), the platform's clock
    now,
    \* the controller list the management canister reports for this canister
    \* (canister_status(..).settings.controllers)
    canister_controllers,
    \* history variables, not part of the program:
    \* the number of upgrades so far
    upgrade_count,
    \* per identity, the times of its accepted log_activity calls, oldest first
    accepted_calls,
    \* per identity, how many of those calls were made before the last upgrade
    accepted_before_upgrade,
    \* the identities the rate limiter has rejected at least once
    rejected_callers,
    \* the controller-only calls suspended at the await of canister_status
    \* (lib.rs:77-81), each with the reply of the management canister once
    \* it is on its way
    awaiting

vars ==
    <<controllers, admins, authorized_canisters, admin_permissions,
      rate_limit_buckets,
      contacts, contacts_by_email, contacts_by_user, next_contact_id,
      deals, deals_by_contact, next_deal_id,
      transactions, next_transaction_id,
      activity_log, metrics_history, feature_flags,
      audit_log, next_audit_log_id, now, canister_controllers,
      upgrade_count, accepted_calls, accepted_before_upgrade, rejected_callers,
      awaiting>>

-----------------------------------------------------------------------------
(* Bounds of the model *)

\* ids issued per family are capped by these (guards of the create actions)
MaxContacts == 2
MaxDeals == 2
MaxTransactions == 1
\* number of audit entries ever recorded
MaxAuditId == 5
\* length of one identity's stored grant list
MaxGrants == 2
\* the clock stops advancing here
MaxTime == 91
\* upgrades in one behaviour
MaxUpgrades == 1
\* accepted log_activity calls of one identity in one behaviour
MaxCalls == 4
\* upgrades after the restore of a snapshot of the earlier schema
MaxMigrations == 3
\* transactions in the ledger the financial summary is taken of
MaxLedger == 3
\* usize is 32 bits wide in the canister's wasm32 build; the model scales
\* 2^32 to this modulus, above every default limit (50, 100)
USIZE_MODULUS == 128

-----------------------------------------------------------------------------
(* Program constants.  The three retention limits, their batch sizes, the  *)
(* call limit and the sweep period are scaled down from the source values  *)
(* (10000/1000, 365/30, 100, 100) so that the limits are reached.          *)

\* state.rs:12, RATE_LIMIT_WINDOW_NS = 60 * NANOSECONDS_PER_SECOND, in seconds
RATE_LIMIT_WINDOW_NS == 60
\* state.rs:13, RATE_LIMIT_MAX_CALLS = 100, scaled
RATE_LIMIT_MAX_CALLS == 3
\* state.rs:268-269, audit log: keep 10000, drain 1000, scaled
AUDIT_LOG_MAX == 2
AUDIT_LOG_DRAIN == 1
\* state.rs:828-829, activity log: keep 10000, drain 1000, scaled
ACTIVITY_LOG_MAX == 3
ACTIVITY_LOG_DRAIN == 2
\* state.rs:838-839, metrics history: keep 365, drain 30, scaled
METRICS_MAX == 2
METRICS_DRAIN == 1
\* lib.rs:885, sweep every 100 activity records, scaled
CLEANUP_PERIOD == 2
\* 2^64, the modulus of u64 arithmetic (and of the i64 two's complement)
U64_MODULUS == 256
\* state.rs:419-420, 449-450 and types.rs:286-293: the default page
DEFAULT_OFFSET == 0
DEFAULT_LIMIT == 50

-----------------------------------------------------------------------------
(* Option, Result, Vec and BTreeMap *)

None == <<>>
Some(x) == <<x>>
IsSome(o) == o # <<>>
Unwrap(o) == o[1]
UnwrapOr(o, d) == IF o = <<>> THEN d ELSE o[1]

Ok(v) == <<"Ok", v>>
Err(e) == <<"Err", e>>
IsOk(r) == r[1] = "Ok"
IsErr(r, e) == r[1] = "Err" /\ r[2] = e

VecContains(v, x) == \E i \in DOMAIN v : v[i] = x
VecRange(v) == {v[i] : i \in DOMAIN v}
\* Vec::drain(0..n)
Drain(v, n) == SubSeq(v, n + 1, Len(v))
\* `x as usize` of a u64: the low bits that fit
as_usize(x) == x % USIZE_MODULUS

\* Iterator::skip(n).take(k)
SkipTake(v, n, k) ==
    SubSeq(v, n + 1, IF n + k < Len(v) THEN n + k ELSE Len(v))

EmptyMap == <<>>
MapInsert(m, k, v) == [x \in DOMAIN m \cup {k} |-> IF x = k THEN v ELSE m[x]]
MapRemove(m, k) == [x \in DOMAIN m \ {k} |-> m[x]]
MapGet(m, k) == IF k \in DOMAIN m THEN Some(m[k]) ELSE None

RECURSIVE SortedSeq(_)
\* the elements of a set of numbers, ascending: BTreeMap<u64, _> key order
SortedSeq(S) ==
    IF S = {} THEN <<>>
    ELSE LET m == CHOOSE x \in S : \A y \in S : x <= y
         IN <<m>> \o SortedSeq(S \ {m})

\* BTreeMap::values() of a map keyed by ids
MapValues(m) ==
    LET ks == SortedSeq(DOMAIN m) IN [i \in DOMAIN ks |-> m[ks[i]]]

\* BTreeMap::iter() of a map whose keys are listed, in key order, in `order`:
\* the flat Vec<(K, V)> of the snapshot
MapToVec(m, order) ==
    LET ks == SelectSeq(order, LAMBDA k : k \in DOMAIN m)
    IN [i \in DOMAIN ks |-> <<ks[i], m[ks[i]]>>]

RECURSIVE VecToMap(_)
\* Iterator::collect::<BTreeMap<_, _>>(): a later pair replaces an earlier one
VecToMap(v) ==
    IF v = <<>> THEN EmptyMap
    ELSE LET n == Len(v)
         IN MapInsert(VecToMap(SubSeq(v, 1, n - 1)), v[n][1], v[n][2])

-----------------------------------------------------------------------------
(* Strings *)

LowerChar(c) ==
    CASE c = "A" -> "a"
      [] c = "B" -> "b"
      [] c = "X" -> "x"
      [] OTHER -> c

\* str::to_lowercase
to_lowercase(str) == [i \in DOMAIN str |-> LowerChar(str[i])]

\* str::contains(&str)
str_contains(hay, needle) ==
    \E i \in 0..(Len(hay) - Len(needle)) :
        SubSeq(hay, i + 1, i + Len(needle)) = needle

\* u64::to_string
to_string(n) == ToString(n)

-----------------------------------------------------------------------------
(* Universe of the inputs *)

\* identities, listed in the order of Principal's Ord
PrincipalOrder == <<"alice", "bob", "ctrl">>
Principals == VecRange(PrincipalOrder)

\* role names, in string order
RoleOrder == <<"auth-service", "frontend", "governance", "user-service">>
Roles == VecRange(RoleOrder)

\* feature flag keys, in string order
FlagKeyOrder == <<"beta", "dark">>
FlagKeys == VecRange(FlagKeyOrder)

ContactPermissions ==
    {"ViewOwnContacts", "ViewAllContacts", "EditOwnContacts",
     "EditAllContacts", "DeleteOwnContacts", "DeleteAllContacts"}
DealPermissions ==
    {"ViewOwnDeals", "ViewAllDeals", "EditOwnDeals",
     "EditAllDeals", "DeleteOwnDeals", "DeleteAllDeals"}
AdminPermission ==
    ContactPermissions \cup DealPermissions
        \cup {"ManageFeatureFlags", "ViewAuditLogs"}

ContactSource == {"Signup", "Referral", "Marketing", "Event", "Partner", "Other"}
ContactStatus == {"Active", "Inactive", "Churned"}
DealStage ==
    {"Lead", "Qualified", "Proposal", "Negotiation", "ClosedWon", "ClosedLost"}

-----------------------------------------------------------------------------
(* The State aggregate.  The methods of state.rs are operators from a State *)
(* record (and the arguments) to the State record after the call, or to a   *)
(* record [s |-> State after, ret |-> returned value].                      *)

\* the current value of STATE (state.rs:868-870)
Self ==
    [controllers |-> controllers, admins |-> admins,
     authorized_canisters |-> authorized_canisters,
     admin_permissions |-> admin_permissions,
     rate_limit_buckets |-> rate_limit_buckets,
     contacts |-> contacts, contacts_by_email |-> contacts_by_email,
     contacts_by_user |-> contacts_by_user,
     next_contact_id |-> next_contact_id,
     deals |-> deals, deals_by_contact |-> deals_by_contact,
     next_deal_id |-> next_deal_id,
     transactions |-> transactions,
     next_transaction_id |-> next_transaction_id,
     activity_log |-> activity_log, metrics_history |-> metrics_history,
     feature_flags |-> feature_flags,
     audit_log |-> audit_log, next_audit_log_id |-> next_audit_log_id]

\* STATE.with(|state| *state.borrow_mut() = s)
Commit(s) ==
    /\ controllers' = s.controllers
    /\ admins' = s.admins
    /\ authorized_canisters' = s.authorized_canisters
    /\ admin_permissions' = s.admin_permissions
    /\ rate_limit_buckets' = s.rate_limit_buckets
    /\ contacts' = s.contacts
    /\ contacts_by_email' = s.contacts_by_email
    /\ contacts_by_user' = s.contacts_by_user
    /\ next_contact_id' = s.next_contact_id
    /\ deals' = s.deals
    /\ deals_by_contact' = s.deals_by_contact
    /\ next_deal_id' = s.next_deal_id
    /\ transactions' = s.transactions
    /\ next_transaction_id' = s.next_transaction_id
    /\ activity_log' = s.activity_log
    /\ metrics_history' = s.metrics_history
    /\ feature_flags' = s.feature_flags
    /\ audit_log' = s.audit_log
    /\ next_audit_log_id' = s.next_audit_log_id

\* STATE holds s
Holds(s) ==
    /\ controllers = s.controllers
    /\ admins = s.admins
    /\ authorized_canisters = s.authorized_canisters
    /\ admin_permissions = s.admin_permissions
    /\ rate_limit_buckets = s.rate_limit_buckets
    /\ contacts = s.contacts
    /\ contacts_by_email = s.contacts_by_email
    /\ contacts_by_user = s.contacts_by_user
    /\ next_contact_id = s.next_contact_id
    /\ deals = s.deals
    /\ deals_by_contact = s.deals_by_contact
    /\ next_deal_id = s.next_deal_id
    /\ transactions = s.transactions
    /\ next_transaction_id = s.next_transaction_id
    /\ activity_log = s.activity_log
    /\ metrics_history = s.metrics_history
    /\ feature_flags = s.feature_flags
    /\ audit_log = s.audit_log
    /\ next_audit_log_id = s.next_audit_log_id

\* State::new (state.rs:63-85)
State_new ==
    [controllers |-> <<>>, admins |-> <<>>,
     authorized_canisters |-> EmptyMap,
     admin_permissions |-> EmptyMap,
     rate_limit_buckets |-> EmptyMap,
     contacts |-> EmptyMap, contacts_by_email |-> EmptyMap,
     contacts_by_user |-> EmptyMap,
     next_contact_id |-> 1,
     deals |-> EmptyMap, deals_by_contact |-> EmptyMap,
     next_deal_id |-> 1,
     transactions |-> EmptyMap,
     next_transaction_id |-> 1,
     activity_log |-> <<>>, metrics_history |-> <<>>,
     feature_flags |-> EmptyMap,
     audit_log |-> <<>>, next_audit_log_id |-> 1]

(* Rate limiting *)

\* a limiter that admits one call more than the maximum
check_rate_limit_one_more(s, caller) ==
    LET window_start ==
            IF now >= RATE_LIMIT_WINDOW_NS THEN now - RATE_LIMIT_WINDOW_NS ELSE 0
        old == IF caller \in DOMAIN s.rate_limit_buckets
               THEN s.rate_limit_buckets[caller] ELSE <<>>
        bucket == SelectSeq(old, LAMBDA ts : ts >= window_start)
    IN IF Len(bucket) > RATE_LIMIT_MAX_CALLS
       THEN [s |-> [s EXCEPT !.rate_limit_buckets = MapInsert(@, caller, bucket)],
             ret |-> Err("Rate limit exceeded")]
       ELSE [s |-> [s EXCEPT !.rate_limit_buckets =
                                 MapInsert(@, caller, Append(bucket, now))],
             ret |-> Ok(None)]

\* a limiter that never expires a timestamp
check_rate_limit_without_expiry(s, caller) ==
    LET bucket == IF caller \in DOMAIN s.rate_limit_buckets
                  THEN s.rate_limit_buckets[caller] ELSE <<>>
    IN IF Len(bucket) >= RATE_LIMIT_MAX_CALLS
       THEN [s |-> [s EXCEPT !.rate_limit_buckets = MapInsert(@, caller, bucket)],
             ret |-> Err("Rate limit exceeded")]
       ELSE [s |-> [s EXCEPT !.rate_limit_buckets =
                                 MapInsert(@, caller, Append(bucket, now))],
             ret |-> Ok(None)]

\* a limiter that records the rejected call too
check_rate_limit_recording_rejected(s, caller) ==
    LET window_start ==
            IF now >= RATE_LIMIT_WINDOW_NS THEN now - RATE_LIMIT_WINDOW_NS ELSE 0
        old == IF caller \in DOMAIN s.rate_limit_buckets
               THEN s.rate_limit_buckets[caller] ELSE <<>>
        bucket == SelectSeq(old, LAMBDA ts : ts >= window_start)
    IN [s |-> [s EXCEPT !.rate_limit_buckets =
                            MapInsert(@, caller, Append(bucket, now))],
        ret |-> IF Len(bucket) >= RATE_LIMIT_MAX_CALLS
                THEN Err("Rate limit exceeded: " \o to_string(RATE_LIMIT_MAX_CALLS)
                         \o " calls per minute allowed, try again later")
                ELSE Ok(None)]

\* State::check_rate_limit (state.rs:93-115); now >= 0, so saturating_sub
\* is a subtraction floored at 0
check_rate_limit(s, caller) ==
    LET window_start ==
            IF now >= RATE_LIMIT_WINDOW_NS THEN now - RATE_LIMIT_WINDOW_NS ELSE 0
        old == IF caller \in DOMAIN s.rate_limit_buckets
               THEN s.rate_limit_buckets[caller] ELSE <<>>
        bucket == SelectSeq(old, LAMBDA ts : ts >= window_start)
    IN IF Len(bucket) >= RATE_LIMIT_MAX_CALLS
       THEN [s |-> [s EXCEPT !.rate_limit_buckets = MapInsert(@, caller, bucket)],
             ret |-> Err("Rate limit exceeded: " \o to_string(RATE_LIMIT_MAX_CALLS)
                        \o " calls per minute allowed, try again later")]
       ELSE [s |-> [s EXCEPT !.rate_limit_buckets =
                                 MapInsert(@, caller, Append(bucket, now))],
             ret |-> Ok(None)]

\* a sweep that drops a bucket as soon as one of its timestamps has expired
cleanup_rate_limits_dropping_stale_buckets(s) ==
    LET window_start ==
            IF now >= RATE_LIMIT_WINDOW_NS THEN now - RATE_LIMIT_WINDOW_NS ELSE 0
        live == {p \in DOMAIN s.rate_limit_buckets :
                    /\ s.rate_limit_buckets[p] # <<>>
                    /\ \A i \in DOMAIN s.rate_limit_buckets[p] :
                          s.rate_limit_buckets[p][i] >= window_start}
    IN [s EXCEPT !.rate_limit_buckets = [p \in live |-> s.rate_limit_buckets[p]]]

\* State::cleanup_rate_limits (state.rs:119-128)
cleanup_rate_limits(s) ==
    LET window_start ==
            IF now >= RATE_LIMIT_WINDOW_NS THEN now - RATE_LIMIT_WINDOW_NS ELSE 0
        kept(p) == SelectSeq(s.rate_limit_buckets[p], LAMBDA ts : ts >= window_start)
        live == {p \in DOMAIN s.rate_limit_buckets : kept(p) # <<>>}
    IN [s EXCEPT !.rate_limit_buckets = [p \in live |-> kept(p)]]

(* Identity and role registry *)

\* State::is_controller (state.rs:131-133)
is_controller(s, principal) == VecContains(s.controllers, principal)

\* State::is_admin (state.rs:136-138)
is_admin(s, principal) ==
    VecContains(s.admins, principal) \/ VecContains(s.controllers, principal)

\* an add_admin that pushes without looking for the identity
add_admin_always_push(s, principal) ==
    [s EXCEPT !.admins = Append(@, principal)]

\* State::add_admin (state.rs:141-145)
State_add_admin(s, principal) ==
    IF ~VecContains(s.admins, principal)
    THEN [s EXCEPT !.admins = Append(@, principal)]
    ELSE s

\* State::remove_admin (state.rs:148-150)
State_remove_admin(s, principal) ==
    [s EXCEPT !.admins = SelectSeq(@, LAMBDA p : p # principal)]

\* State::register_authorized_canister (state.rs:153-155)
State_register_authorized_canister(s, role, canister_id) ==
    [s EXCEPT !.authorized_canisters = MapInsert(@, role, canister_id)]

\* State::unregister_authorized_canister (state.rs:158-160)
State_unregister_authorized_canister(s, role) ==
    [s EXCEPT !.authorized_canisters = MapRemove(@, role)]

\* State::is_authorized_canister (state.rs:163-167)
is_authorized_canister(s, role, principal) ==
    /\ role \in DOMAIN s.authorized_canisters
    /\ s.authorized_canisters[role] = principal

(* Permission table *)

\* a has_permission that looks at the stored grants alone
has_permission_by_grants_only(s, principal, permission) ==
    /\ principal \in DOMAIN s.admin_permissions
    /\ VecContains(s.admin_permissions[principal], permission)

\* State::has_permission (state.rs:189-199)
has_permission(s, principal, permission) ==
    IF VecContains(s.controllers, principal)
    THEN TRUE
    ELSE /\ principal \in DOMAIN s.admin_permissions
         /\ VecContains(s.admin_permissions[principal], permission)

\* State::grant_permission (state.rs:202-207)
State_grant_permission(s, principal, permission) ==
    LET old == IF principal \in DOMAIN s.admin_permissions
               THEN s.admin_permissions[principal] ELSE <<>>
    IN [s EXCEPT !.admin_permissions =
                     MapInsert(@, principal, Append(old, permission))]

\* State::revoke_permission (state.rs:210-214)
State_revoke_permission(s, principal, permission) ==
    IF principal \in DOMAIN s.admin_permissions
    THEN [s EXCEPT !.admin_permissions[principal] =
                       SelectSeq(@, LAMBDA p : p # permission)]
    ELSE s

\* State::get_permissions (state.rs:217-222)
State_get_permissions(s, principal) ==
    IF principal \in DOMAIN s.admin_permissions
    THEN s.admin_permissions[principal] ELSE <<>>

RECURSIVE GrantMissing(_, _, _)
\* the loop of grant_default_permissions (state.rs:233-237)
GrantMissing(s, principal, perms) ==
    IF perms = <<>> THEN s
    ELSE LET perm == Head(perms)
             s1 == IF ~has_permission(s, principal, perm)
                   THEN State_grant_permission(s, principal, perm)
                   ELSE s
         IN GrantMissing(s1, principal, Tail(perms))

\* State::grant_default_permissions (state.rs:225-238)
grant_default_permissions(s, principal) ==
    GrantMissing(s, principal,
                 <<"ViewOwnContacts", "EditOwnContacts",
                   "ViewOwnDeals", "EditOwnDeals">>)

(* Audit log *)

\* an audit log that, when full, drops the newest entries and keeps the oldest
record_audit_log_dropping_newest(s, actor, action, target_type, target_id, details) ==
    LET entry == [id |-> s.next_audit_log_id,
                  timestamp |-> now,
                  actor |-> actor,
                  action |-> action,
                  target_type |-> target_type,
                  target_id |-> target_id,
                  details |-> details]
        pushed == Append(s.audit_log, entry)
    IN [s EXCEPT !.next_audit_log_id = @ + 1,
                 !.audit_log = IF Len(pushed) > AUDIT_LOG_MAX
                               THEN SubSeq(pushed, 1, Len(pushed) - AUDIT_LOG_DRAIN)
                               ELSE pushed]

\* State::record_audit_log (state.rs:246-271)
record_audit_log(s, actor, action, target_type, target_id, details) ==
    LET entry == [id |-> s.next_audit_log_id,
                  timestamp |-> now,
                  actor |-> actor,
                  action |-> action,
                  target_type |-> target_type,
                  target_id |-> target_id,
                  details |-> details]
        pushed == Append(s.audit_log, entry)
    IN [s EXCEPT !.next_audit_log_id = @ + 1,
                 !.audit_log = IF Len(pushed) > AUDIT_LOG_MAX
                               THEN Drain(pushed, AUDIT_LOG_DRAIN)
                               ELSE pushed]

\* the serde_json details blob of an audit entry; its text is not modelled
Details == Some("json")

(* Contacts *)

\* State::create_contact (state.rs:302-331)
State_create_contact(s, request, caller) ==
    LET id == s.next_contact_id
        contact == [id |-> id,
                    user_id |-> request.user_id,
                    email |-> request.email,
                    name |-> request.name,
                    company |-> request.company,
                    job_title |-> request.job_title,
                    interest_area |-> request.interest_area,
                    source |-> UnwrapOr(request.source, "Signup"),
                    notes |-> request.notes,
                    status |-> "Active",
                    owner_id |-> Some(caller),
                    team_id |-> None,
                    created_at |-> now,
                    updated_at |-> now]
    IN [s |-> [s EXCEPT
                 !.next_contact_id = @ + 1,
                 !.contacts = MapInsert(@, id, contact),
                 !.contacts_by_email =
                     MapInsert(@, to_lowercase(request.email), id),
                 !.contacts_by_user =
                     IF IsSome(request.user_id)
                     THEN MapInsert(@, Unwrap(request.user_id), id)
                     ELSE @],
        ret |-> contact]

\* State::get_contact (state.rs:334-336)
State_get_contact(s, id) == MapGet(s.contacts, id)

\* State::get_contact_by_email (state.rs:339-343)
State_get_contact_by_email(s, email) ==
    LET key == to_lowercase(email)
    IN IF key \in DOMAIN s.contacts_by_email
       THEN MapGet(s.contacts, s.contacts_by_email[key])
       ELSE None

\* an update_contact that clears the fields the request leaves out
update_contact_clearing_absent(s, id, name, company, job_title, interest_area, notes, status) ==
    IF id \notin DOMAIN s.contacts
    THEN [s |-> s, ret |-> None]
    ELSE LET old == s.contacts[id]
             contact ==
                 [old EXCEPT
                    !.name = name,
                    !.company = company,
                    !.job_title = job_title,
                    !.interest_area = interest_area,
                    !.notes = notes,
                    !.status = IF IsSome(status) THEN Unwrap(status) ELSE @,
                    !.updated_at = now]
         IN [s |-> [s EXCEPT !.contacts[id] = contact], ret |-> Some(contact)]

\* State::update_contact (state.rs:347-380)
State_update_contact(s, id, name, company, job_title, interest_area, notes, status) ==
    IF id \notin DOMAIN s.contacts
    THEN [s |-> s, ret |-> None]
    ELSE LET old == s.contacts[id]
             contact ==
                 [old EXCEPT
                    !.name = IF IsSome(name) THEN name ELSE @,
                    !.company = IF IsSome(company) THEN company ELSE @,
                    !.job_title = IF IsSome(job_title) THEN job_title ELSE @,
                    !.interest_area =
                        IF IsSome(interest_area) THEN interest_area ELSE @,
                    !.notes = IF IsSome(notes) THEN notes ELSE @,
                    !.status = IF IsSome(status) THEN Unwrap(status) ELSE @,
                    !.updated_at = now]
         IN [s |-> [s EXCEPT !.contacts[id] = contact], ret |-> Some(contact)]

RECURSIVE RemoveDeals(_, _)
\* the cascade loop of delete_contact (state.rs:395-397)
RemoveDeals(dmap, deal_ids) ==
    IF deal_ids = <<>> THEN dmap
    ELSE RemoveDeals(MapRemove(dmap, Head(deal_ids)), Tail(deal_ids))

\* a delete_contact that forgets the cascade: the deals stay
delete_contact_without_cascade(s, id) ==
    IF id \notin DOMAIN s.contacts
    THEN [s |-> s, ret |-> None]
    ELSE [s |-> [s EXCEPT
                   !.contacts = MapRemove(@, id),
                   !.contacts_by_email =
                       MapRemove(@, to_lowercase(s.contacts[id].email)),
                   !.contacts_by_user =
                       IF IsSome(s.contacts[id].user_id)
                       THEN MapRemove(@, Unwrap(s.contacts[id].user_id))
                       ELSE @,
                   !.deals_by_contact = MapRemove(@, id)],
          ret |-> Some(s.contacts[id])]

\* State::delete_contact (state.rs:384-401)
State_delete_contact(s, id) ==
    IF id \notin DOMAIN s.contacts
    THEN [s |-> s, ret |-> None]
    ELSE LET contact == s.contacts[id]
         IN [s |-> [s EXCEPT
                      !.contacts = MapRemove(@, id),
                      !.contacts_by_email =
                          MapRemove(@, to_lowercase(contact.email)),
                      !.contacts_by_user =
                          IF IsSome(contact.user_id)
                          THEN MapRemove(@, Unwrap(contact.user_id))
                          ELSE @,
                      !.deals_by_contact = MapRemove(@, id),
                      !.deals =
                          IF id \in DOMAIN s.deals_by_contact
                          THEN RemoveDeals(@, s.deals_by_contact[id])
                          ELSE @],
             ret |-> Some(contact)]

\* PaginatedResponse (types.rs:297-302)
Page(items, total, offset, limit) ==
    [items |-> items, total |-> total, offset |-> offset, limit |-> limit]

\* the three retain calls on the contact filter (state.rs:431-446)
ContactPasses(c, filter) ==
    \/ filter = None
    \/ LET f == Unwrap(filter)
       IN /\ IsSome(f.status) => c.status = Unwrap(f.status)
          /\ IsSome(f.source) => c.source = Unwrap(f.source)
          /\ IsSome(f.search) =>
               LET search_lower == to_lowercase(Unwrap(f.search))
               IN \/ str_contains(to_lowercase(c.email), search_lower)
                  \/ /\ IsSome(c.name)
                     /\ str_contains(to_lowercase(Unwrap(c.name)), search_lower)
                  \/ /\ IsSome(c.company)
                     /\ str_contains(to_lowercase(Unwrap(c.company)), search_lower)

\* a contact listing without the row-level restriction
get_contacts_without_row_level_security(s, filter, pagination, caller) ==
    LET has_view_all == has_permission(s, caller, "ViewAllContacts")
        has_view_own == has_permission(s, caller, "ViewOwnContacts")
        offset == UnwrapOr(pagination.offset, DEFAULT_OFFSET)
        limit == UnwrapOr(pagination.limit, DEFAULT_LIMIT)
    IN IF ~has_view_all /\ ~has_view_own
       THEN Page(<<>>, 0, offset, limit)
       ELSE LET filtered == SelectSeq(MapValues(s.contacts),
                                      LAMBDA c : ContactPasses(c, filter))
            IN Page(SkipTake(filtered, as_usize(offset), as_usize(limit)), Len(filtered),
                    offset, limit)

\* State::get_contacts (state.rs:405-464)
State_get_contacts(s, filter, pagination, caller) ==
    LET has_view_all == has_permission(s, caller, "ViewAllContacts")
        has_view_own == has_permission(s, caller, "ViewOwnContacts")
        offset == UnwrapOr(pagination.offset, DEFAULT_OFFSET)
        limit == UnwrapOr(pagination.limit, DEFAULT_LIMIT)
    IN IF ~has_view_all /\ ~has_view_own
       THEN Page(<<>>, 0, offset, limit)
       ELSE LET all == MapValues(s.contacts)
                visible == IF ~has_view_all
                           THEN SelectSeq(all, LAMBDA c : c.owner_id = Some(caller))
                           ELSE all
                filtered == SelectSeq(visible, LAMBDA c : ContactPasses(c, filter))
            IN Page(SkipTake(filtered, as_usize(offset), as_usize(limit)), Len(filtered),
                    offset, limit)

(* Deals *)

\* a create_deal that consumes the next id before it looks for the contact
create_deal_consuming_id(s, request, caller) ==
    IF request.contact_id \notin DOMAIN s.contacts
    THEN [s |-> [s EXCEPT !.next_deal_id = @ + 1], ret |-> Err("Contact not found")]
    ELSE LET id == s.next_deal_id
             deal == [id |-> id,
                      contact_id |-> request.contact_id,
                      name |-> request.name,
                      value |-> request.value,
                      stage |-> "Lead",
                      notes |-> request.notes,
                      expected_close_date |-> request.expected_close_date,
                      owner_id |-> Some(caller),
                      created_by |-> Some(caller),
                      created_at |-> now,
                      updated_at |-> now]
             old == IF request.contact_id \in DOMAIN s.deals_by_contact
                    THEN s.deals_by_contact[request.contact_id] ELSE <<>>
         IN [s |-> [s EXCEPT
                      !.next_deal_id = @ + 1,
                      !.deals = MapInsert(@, id, deal),
                      !.deals_by_contact =
                          MapInsert(@, request.contact_id, Append(old, id))],
             ret |-> Ok(deal)]

\* State::create_deal (state.rs:472-502)
State_create_deal(s, request, caller) ==
    IF request.contact_id \notin DOMAIN s.contacts
    THEN [s |-> s, ret |-> Err("Contact not found")]
    ELSE LET id == s.next_deal_id
             deal == [id |-> id,
                      contact_id |-> request.contact_id,
                      name |-> request.name,
                      value |-> request.value,
                      stage |-> "Lead",
                      notes |-> request.notes,
                      expected_close_date |-> request.expected_close_date,
                      owner_id |-> Some(caller),
                      created_by |-> Some(caller),
                      created_at |-> now,
                      updated_at |-> now]
             old == IF request.contact_id \in DOMAIN s.deals_by_contact
                    THEN s.deals_by_contact[request.contact_id] ELSE <<>>
         IN [s |-> [s EXCEPT
                      !.next_deal_id = @ + 1,
                      !.deals = MapInsert(@, id, deal),
                      !.deals_by_contact =
                          MapInsert(@, request.contact_id, Append(old, id))],
             ret |-> Ok(deal)]

\* State::get_deal (state.rs:505-507)
State_get_deal(s, id) == MapGet(s.deals, id)

\* an update_deal_stage that leaves the deal without an owner
update_deal_stage_clearing_owner(s, id, stage) ==
    IF id \notin DOMAIN s.deals
    THEN [s |-> s, ret |-> None]
    ELSE LET deal == [s.deals[id] EXCEPT !.stage = stage, !.updated_at = now,
                                         !.owner_id = None]
         IN [s |-> [s EXCEPT !.deals[id] = deal], ret |-> Some(deal)]

\* State::update_deal_stage (state.rs:510-515)
State_update_deal_stage(s, id, stage) ==
    IF id \notin DOMAIN s.deals
    THEN [s |-> s, ret |-> None]
    ELSE LET deal == [s.deals[id] EXCEPT !.stage = stage, !.updated_at = now]
         IN [s |-> [s EXCEPT !.deals[id] = deal], ret |-> Some(deal)]

\* State::update_deal (state.rs:519-548)
State_update_deal(s, id, name, value, stage, notes, expected_close_date) ==
    IF id \notin DOMAIN s.deals
    THEN [s |-> s, ret |-> None]
    ELSE LET deal ==
                 [s.deals[id] EXCEPT
                    !.name = IF IsSome(name) THEN Unwrap(name) ELSE @,
                    !.value = IF IsSome(value) THEN value ELSE @,
                    !.stage = IF IsSome(stage) THEN Unwrap(stage) ELSE @,
                    !.notes = IF IsSome(notes) THEN notes ELSE @,
                    !.expected_close_date =
                        IF IsSome(expected_close_date)
                        THEN expected_close_date ELSE @,
                    !.updated_at = now]
         IN [s |-> [s EXCEPT !.deals[id] = deal], ret |-> Some(deal)]

\* a delete_deal that gives the id of the newest deal back to the counter
delete_deal_releasing_id(s, id) ==
    IF id \notin DOMAIN s.deals
    THEN [s |-> s, ret |-> None]
    ELSE LET deal == s.deals[id]
         IN [s |-> [s EXCEPT
                      !.deals = MapRemove(@, id),
                      !.deals_by_contact =
                          IF deal.contact_id \in DOMAIN @
                          THEN [@ EXCEPT ![deal.contact_id] =
                                   SelectSeq(@, LAMBDA did : did # id)]
                          ELSE @,
                      !.next_deal_id = IF id + 1 = @ THEN id ELSE @],
             ret |-> Some(deal)]

\* a delete_deal that leaves the contact's list of deal ids as it was
delete_deal_keeping_index(s, id) ==
    IF id \notin DOMAIN s.deals
    THEN [s |-> s, ret |-> None]
    ELSE [s |-> [s EXCEPT !.deals = MapRemove(@, id)], ret |-> Some(s.deals[id])]

\* State::delete_deal (state.rs:552-561)
State_delete_deal(s, id) ==
    IF id \notin DOMAIN s.deals
    THEN [s |-> s, ret |-> None]
    ELSE LET deal == s.deals[id]
         IN [s |-> [s EXCEPT
                      !.deals = MapRemove(@, id),
                      !.deals_by_contact =
                          IF deal.contact_id \in DOMAIN @
                          THEN [@ EXCEPT ![deal.contact_id] =
                                   SelectSeq(@, LAMBDA did : did # id)]
                          ELSE @],
             ret |-> Some(deal)]

\* the two retain calls on the deal filter (state.rs:591-598)
DealPasses(d, filter) ==
    \/ filter = None
    \/ LET f == Unwrap(filter)
       IN /\ IsSome(f.stage) => d.stage = Unwrap(f.stage)
          /\ IsSome(f.contact_id) => d.contact_id = Unwrap(f.contact_id)

\* a deal listing that treats a caller without view capabilities as view-own
get_deals_without_empty_page(s, filter, pagination, caller) ==
    LET has_view_all == has_permission(s, caller, "ViewAllDeals")
        offset == UnwrapOr(pagination.offset, DEFAULT_OFFSET)
        limit == UnwrapOr(pagination.limit, DEFAULT_LIMIT)
        all == MapValues(s.deals)
        visible == IF ~has_view_all
                   THEN SelectSeq(all, LAMBDA d : d.owner_id = Some(caller))
                   ELSE all
        filtered == SelectSeq(visible, LAMBDA d : DealPasses(d, filter))
    IN Page(SkipTake(filtered, as_usize(offset), as_usize(limit)), Len(filtered), offset, limit)

\* State::get_deals (state.rs:565-616)
State_get_deals(s, filter, pagination, caller) ==
    LET has_view_all == has_permission(s, caller, "ViewAllDeals")
        has_view_own == has_permission(s, caller, "ViewOwnDeals")
        offset == UnwrapOr(pagination.offset, DEFAULT_OFFSET)
        limit == UnwrapOr(pagination.limit, DEFAULT_LIMIT)
    IN IF ~has_view_all /\ ~has_view_own
       THEN Page(<<>>, 0, offset, limit)
       ELSE LET all == MapValues(s.deals)
                visible == IF ~has_view_all
                           THEN SelectSeq(all, LAMBDA d : d.owner_id = Some(caller))
                           ELSE all
                filtered == SelectSeq(visible, LAMBDA d : DealPasses(d, filter))
            IN Page(SkipTake(filtered, as_usize(offset), as_usize(limit)), Len(filtered),
                    offset, limit)

(* Transactions *)

\* State::create_transaction (state.rs:623-642)
State_create_transaction(s, request) ==
    LET id == s.next_transaction_id
        transaction == [id |-> id,
                        transaction_type |-> request.transaction_type,
                        category |-> request.category,
                        amount |-> request.amount,
                        currency |-> UnwrapOr(request.currency, "USD"),
                        description |-> request.description,
                        reference |-> request.reference,
                        date |-> UnwrapOr(request.date, now),
                        created_at |-> now]
    IN [s |-> [s EXCEPT !.next_transaction_id = @ + 1,
                        !.transactions = MapInsert(@, id, transaction)],
        ret |-> transaction]

(* Feature flags *)

\* a set_feature_flag that keeps what the request leaves out
set_feature_flag_merging(s, request) ==
    LET had == request.key \in DOMAIN s.feature_flags
        flag == [key |-> request.key,
                 enabled |-> request.enabled,
                 description |->
                     IF request.description = None /\ had
                     THEN s.feature_flags[request.key].description
                     ELSE request.description,
                 percentage |->
                     IF request.percentage = None /\ had
                     THEN s.feature_flags[request.key].percentage
                     ELSE request.percentage,
                 allowed_principals |->
                     IF request.allowed_principals = None /\ had
                     THEN s.feature_flags[request.key].allowed_principals
                     ELSE UnwrapOr(request.allowed_principals, <<>>),
                 updated_at |-> now]
    IN [s EXCEPT !.feature_flags = MapInsert(@, request.key, flag)]

\* State::set_feature_flag (state.rs:722-735)
State_set_feature_flag(s, request) ==
    LET flag == [key |-> request.key,
                 enabled |-> request.enabled,
                 description |-> request.description,
                 percentage |-> request.percentage,
                 allowed_principals |-> UnwrapOr(request.allowed_principals, <<>>),
                 updated_at |-> now]
    IN [s EXCEPT !.feature_flags = MapInsert(@, request.key, flag)]

\* State::get_feature_flag (state.rs:738-740)
State_get_feature_flag(s, key) == MapGet(s.feature_flags, key)

(* Ownership migration *)

\* a migration that stamps the first admin on every record, owned or not
migrate_ownership_overwriting(s) ==
    IF s.admins = <<>>
    THEN s
    ELSE [s EXCEPT
            !.contacts =
                [id \in DOMAIN @ |-> [@[id] EXCEPT !.owner_id = Some(Head(s.admins))]],
            !.deals =
                [id \in DOMAIN @ |->
                   [@[id] EXCEPT !.owner_id = Some(Head(s.admins)),
                                 !.created_by = Some(Head(s.admins))]]]

\* State::migrate_ownership (state.rs:784-810)
migrate_ownership(s) ==
    IF s.admins = <<>>
    THEN s
    ELSE LET admin == Head(s.admins)
         IN [s EXCEPT
               !.contacts =
                   [id \in DOMAIN @ |->
                      [@[id] EXCEPT
                         !.owner_id = IF @ = None THEN Some(admin) ELSE @]],
               !.deals =
                   [id \in DOMAIN @ |->
                      [@[id] EXCEPT
                         !.owner_id = IF @ = None THEN Some(admin) ELSE @,
                         !.created_by = IF @ = None THEN Some(admin) ELSE @]]]

(* Activity log and metrics history *)

\* State::log_activity (state.rs:817-831)
State_log_activity(s, user_id, action, metadata) ==
    LET activity == [user_id |-> user_id,
                     action |-> action,
                     metadata |-> metadata,
                     timestamp |-> now]
        pushed == Append(s.activity_log, activity)
    IN [s EXCEPT !.activity_log = IF Len(pushed) > ACTIVITY_LOG_MAX
                                  THEN Drain(pushed, ACTIVITY_LOG_DRAIN)
                                  ELSE pushed]

\* State::record_metrics (state.rs:834-841)
State_record_metrics(s, snapshot) ==
    LET pushed == Append(s.metrics_history, snapshot)
    IN [s EXCEPT !.metrics_history = IF Len(pushed) > METRICS_MAX
                                     THEN Drain(pushed, METRICS_DRAIN)
                                     ELSE pushed]

(* Read-only methods of State *)

\* Iterator::rev() of a Vec
Reverse(v) == [i \in 1..Len(v) |-> v[Len(v) + 1 - i]]

\* Iterator::take(n) of a Vec
Take(v, n) == SubSeq(v, 1, IF n < Len(v) THEN n ELSE Len(v))

\* State::get_audit_log (state.rs:274-294): newest first
State_get_audit_log(s, action_filter, target_type_filter, actor_filter, limit) ==
    Take(SelectSeq(Reverse(s.audit_log),
                   LAMBDA entry :
                      /\ IsSome(action_filter) => entry.action = Unwrap(action_filter)
                      /\ IsSome(target_type_filter) =>
                            entry.target_type = Unwrap(target_type_filter)
                      /\ IsSome(actor_filter) => entry.actor = Unwrap(actor_filter)),
         as_usize(UnwrapOr(limit, 100)))

\* the four retain calls on the transaction filter (state.rs:653-666)
TransactionPasses(t, filter) ==
    \/ filter = None
    \/ LET f == Unwrap(filter)
       IN /\ IsSome(f.transaction_type) =>
                t.transaction_type = Unwrap(f.transaction_type)
          /\ IsSome(f.category) => t.category = Unwrap(f.category)
          /\ IsSome(f.from_date) => t.date >= Unwrap(f.from_date)
          /\ IsSome(f.to_date) => t.date <= Unwrap(f.to_date)

\* State::get_transactions (state.rs:645-683)
State_get_transactions(s, filter, pagination) ==
    LET retained == SelectSeq(MapValues(s.transactions),
                              LAMBDA t : TransactionPasses(t, filter))
        offset == UnwrapOr(pagination.offset, DEFAULT_OFFSET)
        limit == UnwrapOr(pagination.limit, DEFAULT_LIMIT)
    IN Page(SkipTake(retained, as_usize(offset), as_usize(limit)), Len(retained),
            offset, limit)

\* `x as i64` of a u64, and the i64 difference, in two's complement
as_i64(x) == IF x >= U64_MODULUS \div 2 THEN x - U64_MODULUS ELSE x

wrapping_i64(x) ==
    as_i64(((x % U64_MODULUS) + U64_MODULUS) % U64_MODULUS)

RECURSIVE SummaryLoop(_, _, _, _)
\* the loop of get_financial_summary (state.rs:691-705) over the transactions
\* left in `ts`, with the three running totals in `acc`; `+=` on u64 wraps
SummaryLoop(ts, from, to, acc) ==
    IF ts = <<>> THEN acc
    ELSE LET t == Head(ts)
             next ==
                IF t.date >= from /\ t.date <= to
                THEN IF t.transaction_type = "Income"
                     THEN [acc EXCEPT
                             !.total_income = (@ + t.amount) % U64_MODULUS,
                             !.subscription_income =
                                 IF t.category = "Subscription"
                                 THEN (@ + t.amount) % U64_MODULUS ELSE @]
                     ELSE [acc EXCEPT
                             !.total_expenses = (@ + t.amount) % U64_MODULUS]
                ELSE acc
         IN SummaryLoop(Tail(ts), from, to, next)

\* a summary whose recurring revenue is taken of all income
financial_summary_mrr_of_all_income(s, from, to) ==
    LET acc == SummaryLoop(MapValues(s.transactions), from, to,
                           [total_income |-> 0, total_expenses |-> 0,
                            subscription_income |-> 0])
    IN [total_income |-> acc.total_income,
        total_expenses |-> acc.total_expenses,
        net |-> wrapping_i64(as_i64(acc.total_income) - as_i64(acc.total_expenses)),
        mrr |-> acc.total_income \div 12,
        period_start |-> from,
        period_end |-> to]

\* State::get_financial_summary (state.rs:686-715)
State_get_financial_summary(s, from, to) ==
    LET acc == SummaryLoop(MapValues(s.transactions), from, to,
                           [total_income |-> 0, total_expenses |-> 0,
                            subscription_income |-> 0])
    IN [total_income |-> acc.total_income,
        total_expenses |-> acc.total_expenses,
        net |-> wrapping_i64(as_i64(acc.total_income) - as_i64(acc.total_expenses)),
        mrr |-> acc.subscription_income \div 12,
        period_start |-> from,
        period_end |-> to]

\* Principal::as_slice: the bytes of the three identities, of the anonymous
\* one, of the management canister (no byte) and of an identity of the
\* greatest length, 29 bytes
as_slice(principal) ==
    CASE principal = "alice" -> <<1>>
      [] principal = "bob" -> <<200, 149>>
      [] principal = "ctrl" -> <<99>>
      [] principal = "anonymous" -> <<4>>
      [] principal = "management" -> <<>>
      [] principal = "longest" -> [i \in 1..29 |-> 255]

RECURSIVE wrapping_sum_u8(_)
\* a fold whose accumulator is one byte wide
wrapping_sum_u8(bytes) ==
    IF bytes = <<>> THEN 0
    ELSE (wrapping_sum_u8(SubSeq(bytes, 1, Len(bytes) - 1)) + bytes[Len(bytes)])
            % 256

RECURSIVE wrapping_sum(_)
\* fold(0u64, |acc, b| acc.wrapping_add(*b as u64)) (state.rs:758): at most
\* 29 bytes of at most 255 each, so the u64 accumulator never wraps
wrapping_sum(bytes) ==
    IF bytes = <<>> THEN 0
    ELSE wrapping_sum(SubSeq(bytes, 1, Len(bytes) - 1)) + bytes[Len(bytes)]

\* a decision that consults the percentage before the allow-list
is_feature_enabled_percentage_first(s, key, principal) ==
    IF key \notin DOMAIN s.feature_flags THEN FALSE
    ELSE LET flag == s.feature_flags[key]
         IN IF ~flag.enabled THEN FALSE
            ELSE IF IsSome(flag.percentage)
            THEN (wrapping_sum(as_slice(principal)) % 100) < Unwrap(flag.percentage)
            ELSE IF flag.allowed_principals # <<>>
            THEN VecContains(flag.allowed_principals, principal)
            ELSE TRUE

\* State::is_feature_enabled (state.rs:743-766)
State_is_feature_enabled(s, key, principal) ==
    IF key \notin DOMAIN s.feature_flags THEN FALSE
    ELSE LET flag == s.feature_flags[key]
         IN IF ~flag.enabled THEN FALSE
            ELSE IF flag.allowed_principals # <<>>
            THEN VecContains(flag.allowed_principals, principal)
            ELSE IF IsSome(flag.percentage)
            THEN (wrapping_sum(as_slice(principal)) % 100) < Unwrap(flag.percentage)
            ELSE TRUE

\* State::list_feature_flags (state.rs:769-771): in key order
State_list_feature_flags(s) ==
    LET ks == SelectSeq(FlagKeyOrder, LAMBDA k : k \in DOMAIN s.feature_flags)
    IN [i \in DOMAIN ks |-> s.feature_flags[ks[i]]]

RECURSIVE SortNewestFirst(_)
\* sort_by(|a, b| b.timestamp.cmp(&a.timestamp)), a stable sort (state.rs:855)
SortNewestFirst(v) ==
    IF v = <<>> THEN <<>>
    ELSE LET newest == CHOOSE x \in {v[i].timestamp : i \in DOMAIN v} :
                          \A i \in DOMAIN v : v[i].timestamp <= x
         IN SelectSeq(v, LAMBDA m : m.timestamp = newest)
              \o SortNewestFirst(SelectSeq(v, LAMBDA m : m.timestamp # newest))

\* State::list_metrics (state.rs:844-860)
State_list_metrics(s, from, to, limit) ==
    Take(SortNewestFirst(SelectSeq(s.metrics_history,
                                   LAMBDA m : m.timestamp >= from /\ m.timestamp <= to)),
         as_usize(UnwrapOr(limit, 100)))

\* State::get_latest_metrics (state.rs:863-865)
State_get_latest_metrics(s) ==
    IF s.metrics_history = <<>> THEN None
    ELSE Some(s.metrics_history[Len(s.metrics_history)])

-----------------------------------------------------------------------------
(* The snapshot *)

\* a snapshot that leaves the transactions out
StableState_without_transactions(state) ==
    [controllers |-> state.controllers,
     admins |-> state.admins,
     authorized_canisters |-> MapToVec(state.authorized_canisters, RoleOrder),
     admin_permissions |-> MapToVec(state.admin_permissions, PrincipalOrder),
     contacts |-> MapToVec(state.contacts, SortedSeq(DOMAIN state.contacts)),
     next_contact_id |-> state.next_contact_id,
     deals |-> MapToVec(state.deals, SortedSeq(DOMAIN state.deals)),
     next_deal_id |-> state.next_deal_id,
     transactions |-> <<>>,
     next_transaction_id |-> state.next_transaction_id,
     feature_flags |-> MapToVec(state.feature_flags, FlagKeyOrder),
     metrics_history |-> state.metrics_history,
     audit_log |-> state.audit_log,
     next_audit_log_id |-> state.next_audit_log_id]

\* impl From<&State> for StableState (state.rs:898-917); the fields are those
\* of struct StableState (state.rs:874-896)
StableState_from(state) ==
    [controllers |-> state.controllers,
     admins |-> state.admins,
     authorized_canisters |-> MapToVec(state.authorized_canisters, RoleOrder),
     admin_permissions |-> MapToVec(state.admin_permissions, PrincipalOrder),
     contacts |-> MapToVec(state.contacts, SortedSeq(DOMAIN state.contacts)),
     next_contact_id |-> state.next_contact_id,
     deals |-> MapToVec(state.deals, SortedSeq(DOMAIN state.deals)),
     next_deal_id |-> state.next_deal_id,
     transactions |->
         MapToVec(state.transactions, SortedSeq(DOMAIN state.transactions)),
     next_transaction_id |-> state.next_transaction_id,
     feature_flags |-> MapToVec(state.feature_flags, FlagKeyOrder),
     metrics_history |-> state.metrics_history,
     audit_log |-> state.audit_log,
     next_audit_log_id |-> state.next_audit_log_id]

RECURSIVE RebuildContactIndexes(_, _)
\* the first rebuild loop of From<StableState> (state.rs:940-945), over the
\* (id, contact) pairs in key order
RebuildContactIndexes(s, cs) ==
    IF cs = <<>> THEN s
    ELSE LET id == Head(cs)[1]
             contact == Head(cs)[2]
             s1 == [s EXCEPT
                      !.contacts_by_email =
                          MapInsert(@, to_lowercase(contact.email), id),
                      !.contacts_by_user =
                          IF IsSome(contact.user_id)
                          THEN MapInsert(@, Unwrap(contact.user_id), id)
                          ELSE @]
         IN RebuildContactIndexes(s1, Tail(cs))

RECURSIVE RebuildDealIndex(_, _)
\* the second rebuild loop of From<StableState> (state.rs:947-952), over the
\* (id, deal) pairs in key order
RebuildDealIndex(s, ds) ==
    IF ds = <<>> THEN s
    ELSE LET id == Head(ds)[1]
             deal == Head(ds)[2]
             old == IF deal.contact_id \in DOMAIN s.deals_by_contact
                    THEN s.deals_by_contact[deal.contact_id] ELSE <<>>
             s1 == [s EXCEPT
                      !.deals_by_contact =
                          MapInsert(@, deal.contact_id, Append(old, id))]
         IN RebuildDealIndex(s1, Tail(ds))

\* impl From<StableState> for State (state.rs:919-956)
State_from(stable) ==
    LET state ==
            [controllers |-> stable.controllers,
             admins |-> stable.admins,
             authorized_canisters |-> VecToMap(stable.authorized_canisters),
             admin_permissions |-> VecToMap(stable.admin_permissions),
             contacts |-> VecToMap(stable.contacts),
             next_contact_id |-> stable.next_contact_id,
             deals |-> VecToMap(stable.deals),
             next_deal_id |-> stable.next_deal_id,
             transactions |-> VecToMap(stable.transactions),
             next_transaction_id |-> stable.next_transaction_id,
             feature_flags |-> VecToMap(stable.feature_flags),
             metrics_history |-> stable.metrics_history,
             audit_log |-> stable.audit_log,
             next_audit_log_id |->
                 IF stable.next_audit_log_id = 0 THEN 1
                 ELSE stable.next_audit_log_id,
             \* ..Default::default()
             rate_limit_buckets |-> EmptyMap,
             contacts_by_email |-> EmptyMap,
             contacts_by_user |-> EmptyMap,
             deals_by_contact |-> EmptyMap,
             activity_log |-> <<>>]
        s1 == RebuildContactIndexes(
                  state, MapToVec(state.contacts, SortedSeq(DOMAIN state.contacts)))
    IN RebuildDealIndex(s1, MapToVec(s1.deals, SortedSeq(DOMAIN s1.deals)))

-----------------------------------------------------------------------------
(* The endpoints of lib.rs.  Each is an operator from the State before the  *)
(* call, the caller and the arguments to [s |-> State after, ret |-> the    *)
(* Result returned]; a query leaves s unchanged.                            *)

\* a resumption that admits the caller and keeps the local controller list
require_controller_resumed_without_refresh(s, caller, reply) ==
    IF ~IsOk(reply)
    THEN [s |-> s, ret |-> Err("Failed to query canister status")]
    ELSE IF ~VecContains(reply[2], caller)
         THEN [s |-> s,
               ret |-> Err("Unauthorized: Only controllers can perform this action")]
         ELSE [s |-> s, ret |-> Ok(None)]

\* require_controller after the await (lib.rs:81-90), on the reply of
\* canister_status: a reject, or the controller list of the settings
require_controller_resumed(s, caller, reply) ==
    IF ~IsOk(reply)
    THEN [s |-> s, ret |-> Err("Failed to query canister status")]
    ELSE IF ~VecContains(reply[2], caller)
         THEN [s |-> s,
               ret |-> Err("Unauthorized: Only controllers can perform this action")]
         ELSE [s |-> [s EXCEPT !.controllers = reply[2]], ret |-> Ok(None)]

\* require_controller (lib.rs:68-93) when nothing runs between the call of
\* canister_status and its reply: the management canister's answer is read
\* in the same step
require_controller(s, caller) ==
    IF is_controller(s, caller)
    THEN [s |-> s, ret |-> Ok(None)]
    ELSE require_controller_resumed(s, caller, Ok(canister_controllers))

\* a guard that lets every caller in
require_admin_open(s, caller) == Ok(None)

\* require_admin (lib.rs:95-104)
require_admin(s, caller) ==
    IF is_admin(s, caller)
    THEN Ok(None)
    ELSE Err("Unauthorized: Admin access required")

\* a guard that accepts the canister registered under any role
require_any_authorized_canister(s, caller, role) ==
    IF \E registered \in DOMAIN s.authorized_canisters :
           s.authorized_canisters[registered] = caller
    THEN Ok(None)
    ELSE Err("Unauthorized: Expected " \o role \o " canister")

\* require_authorized_canister (lib.rs:108-118)
require_authorized_canister(s, caller, role) ==
    IF is_authorized_canister(s, role, caller)
    THEN Ok(None)
    ELSE Err("Unauthorized: Expected " \o role \o " canister")

\* a guard that admits the canister registered under any role
require_canister_of_any_role_or_admin(s, caller, roles) ==
    IF is_admin(s, caller)
    THEN Ok(None)
    ELSE IF \E role \in DOMAIN s.authorized_canisters :
                is_authorized_canister(s, role, caller)
         THEN Ok(None)
         ELSE Err("Unauthorized: Requires admin or authorized canister access")

\* require_authorized_canister_or_admin (lib.rs:122-141)
require_authorized_canister_or_admin(s, caller, roles) ==
    IF is_admin(s, caller)
    THEN Ok(None)
    ELSE IF \E role \in roles : is_authorized_canister(s, role, caller)
         THEN Ok(None)
         ELSE Err("Unauthorized: Requires admin or authorized canister access")

\* add_admin (lib.rs:147-157)
add_admin(s, caller, principal) ==
    LET rc == require_controller(s, caller)
    IN IF ~IsOk(rc.ret) THEN rc
       ELSE [s |-> State_add_admin(rc.s, principal), ret |-> Ok(None)]

\* remove_admin (lib.rs:159-169)
remove_admin(s, caller, principal) ==
    LET rc == require_controller(s, caller)
    IN IF ~IsOk(rc.ret) THEN rc
       ELSE [s |-> State_remove_admin(rc.s, principal), ret |-> Ok(None)]

RECURSIVE GrantDefaultsToAll(_, _)
\* the loop of grant_default_permissions_to_all_admins (lib.rs:280-282)
GrantDefaultsToAll(s, list) ==
    IF list = <<>> THEN s
    ELSE GrantDefaultsToAll(grant_default_permissions(s, Head(list)), Tail(list))

\* grant_default_permissions_to_all_admins (lib.rs:272-289)
grant_default_permissions_to_all_admins(s, caller) ==
    LET rc == require_controller(s, caller)
    IN IF ~IsOk(rc.ret) THEN rc
       ELSE [s |-> GrantDefaultsToAll(rc.s, rc.s.admins),
             ret |-> Ok(Len(rc.s.admins))]

\* register_authorized_canister (lib.rs:183-193)
register_authorized_canister(s, caller, role, canister_id) ==
    LET rc == require_controller(s, caller)
    IN IF ~IsOk(rc.ret) THEN rc
       ELSE [s |-> State_register_authorized_canister(rc.s, role, canister_id),
             ret |-> Ok(None)]

\* unregister_authorized_canister (lib.rs:196-206)
unregister_authorized_canister(s, caller, role) ==
    LET rc == require_controller(s, caller)
    IN IF ~IsOk(rc.ret) THEN rc
       ELSE [s |-> State_unregister_authorized_canister(rc.s, role),
             ret |-> Ok(None)]

\* grant_permission (lib.rs:221-231)
grant_permission(s, caller, principal, permission) ==
    LET rc == require_controller(s, caller)
    IN IF ~IsOk(rc.ret) THEN rc
       ELSE [s |-> State_grant_permission(rc.s, principal, permission),
             ret |-> Ok(None)]

\* revoke_permission (lib.rs:235-245)
revoke_permission(s, caller, principal, permission) ==
    LET rc == require_controller(s, caller)
    IN IF ~IsOk(rc.ret) THEN rc
       ELSE [s |-> State_revoke_permission(rc.s, principal, permission),
             ret |-> Ok(None)]

\* create_contact (lib.rs:332-358)
create_contact(s, caller, request) ==
    IF ~IsOk(require_admin(s, caller))
    THEN [s |-> s, ret |-> require_admin(s, caller)]
    ELSE LET c == State_create_contact(s, request, caller)
         IN [s |-> record_audit_log(c.s, caller, "create_contact", "contact",
                                    to_string(c.ret.id), Details),
             ret |-> Ok(c.ret)]

\* a signup that records the contact and opens no deal
create_contact_from_signup_without_deal(s, caller, request) ==
    IF ~IsOk(require_authorized_canister(s, caller, "user-service"))
    THEN [s |-> s, ret |-> require_authorized_canister(s, caller, "user-service")]
    ELSE LET c == State_create_contact(s, request, caller)
         IN [s |-> record_audit_log(c.s, caller, "create_contact_from_signup",
                                    "contact", to_string(c.ret.id), Details),
             ret |-> Ok(c.ret)]

\* create_contact_from_signup (lib.rs:364-424)
create_contact_from_signup(s, caller, request) ==
    IF ~IsOk(require_authorized_canister(s, caller, "user-service"))
    THEN [s |-> s, ret |-> require_authorized_canister(s, caller, "user-service")]
    ELSE LET c == State_create_contact(s, request, caller)
             s1 == record_audit_log(c.s, caller, "create_contact_from_signup",
                                    "contact", to_string(c.ret.id), Details)
             deal_request == [contact_id |-> c.ret.id,
                              name |-> "New signup: Contact #" \o to_string(c.ret.id),
                              value |-> None,
                              notes |-> Some("Auto-created from user signup"),
                              expected_close_date |-> None]
             d == State_create_deal(s1, deal_request, caller)
             s2 == IF IsOk(d.ret)
                   THEN record_audit_log(d.s, caller, "create_deal_from_signup",
                                         "deal", to_string(d.ret[2].id), Details)
                   ELSE d.s
         IN [s |-> s2, ret |-> Ok(c.ret)]

\* get_contact (lib.rs:428-432)
get_contact(s, caller, id) ==
    IF ~IsOk(require_admin(s, caller))
    THEN require_admin(s, caller)
    ELSE Ok(State_get_contact(s, id))

\* get_contact_by_email (lib.rs:437-441)
get_contact_by_email(s, caller, email) ==
    IF ~IsOk(require_admin(s, caller))
    THEN require_admin(s, caller)
    ELSE Ok(State_get_contact_by_email(s, email))

\* PaginationParams::default (types.rs:286-293)
PaginationParams_default == [offset |-> Some(DEFAULT_OFFSET), limit |-> Some(DEFAULT_LIMIT)]

\* get_contacts (lib.rs:445-456)
get_contacts(s, caller, filter, pagination) ==
    IF ~IsOk(require_admin(s, caller))
    THEN require_admin(s, caller)
    ELSE Ok(State_get_contacts(s, filter,
                               UnwrapOr(pagination, PaginationParams_default),
                               caller))

\* update_contact (lib.rs:461-512)
update_contact(s, caller, request) ==
    IF ~IsOk(require_admin(s, caller))
    THEN [s |-> s, ret |-> require_admin(s, caller)]
    ELSE IF State_get_contact(s, request.id) = None
    THEN [s |-> s, ret |-> Err("Contact not found")]
    ELSE LET contact == Unwrap(State_get_contact(s, request.id))
             has_edit_all == has_permission(s, caller, "EditAllContacts")
             has_edit_own == has_permission(s, caller, "EditOwnContacts")
             is_owner == contact.owner_id = Some(caller)
         IN IF ~has_edit_all /\ ~(has_edit_own /\ is_owner)
            THEN [s |-> s, ret |-> Err("Unauthorized: Cannot edit this contact")]
            ELSE LET u == State_update_contact(
                              s, request.id, request.name, request.company,
                              request.job_title, request.interest_area,
                              request.notes, request.status)
                 IN IF u.ret = None
                    THEN [s |-> u.s, ret |-> Err("Failed to update contact")]
                    ELSE [s |-> record_audit_log(
                                    u.s, caller, "update_contact", "contact",
                                    to_string(request.id), Details),
                          ret |-> Ok(Unwrap(u.ret))]

\* a delete_contact in which the delete-own capability suffices for any record
delete_contact_without_owner_check(s, caller, id) ==
    IF ~IsOk(require_admin(s, caller))
    THEN [s |-> s, ret |-> require_admin(s, caller)]
    ELSE IF State_get_contact(s, id) = None
    THEN [s |-> s, ret |-> Err("Contact not found")]
    ELSE IF /\ ~has_permission(s, caller, "DeleteAllContacts")
            /\ ~has_permission(s, caller, "DeleteOwnContacts")
    THEN [s |-> s, ret |-> Err("Unauthorized: Cannot delete this contact")]
    ELSE LET d == State_delete_contact(
                      record_audit_log(s, caller, "delete_contact", "contact",
                                       to_string(id), Details), id)
         IN [s |-> d.s, ret |-> Ok(Unwrap(d.ret))]

\* delete_contact (lib.rs:517-555)
delete_contact(s, caller, id) ==
    IF ~IsOk(require_admin(s, caller))
    THEN [s |-> s, ret |-> require_admin(s, caller)]
    ELSE IF State_get_contact(s, id) = None
    THEN [s |-> s, ret |-> Err("Contact not found")]
    ELSE LET contact == Unwrap(State_get_contact(s, id))
             has_delete_all == has_permission(s, caller, "DeleteAllContacts")
             has_delete_own == has_permission(s, caller, "DeleteOwnContacts")
             is_owner == contact.owner_id = Some(caller)
         IN IF ~has_delete_all /\ ~(has_delete_own /\ is_owner)
            THEN [s |-> s, ret |-> Err("Unauthorized: Cannot delete this contact")]
            ELSE LET s1 == record_audit_log(s, caller, "delete_contact",
                                            "contact", to_string(id), Details)
                     d == State_delete_contact(s1, id)
                 IN IF d.ret = None
                    THEN [s |-> d.s, ret |-> Err("Failed to delete contact")]
                    ELSE [s |-> d.s, ret |-> Ok(Unwrap(d.ret))]

\* create_deal (lib.rs:565-588)
create_deal(s, caller, request) ==
    IF ~IsOk(require_admin(s, caller))
    THEN [s |-> s, ret |-> require_admin(s, caller)]
    ELSE LET d == State_create_deal(s, request, caller)
         IN IF ~IsOk(d.ret)
            THEN d
            ELSE [s |-> record_audit_log(d.s, caller, "create_deal", "deal",
                                         to_string(d.ret[2].id), Details),
                  ret |-> d.ret]

\* get_deal (lib.rs:593-596)
get_deal(s, caller, id) ==
    IF ~IsOk(require_admin(s, caller))
    THEN require_admin(s, caller)
    ELSE Ok(State_get_deal(s, id))

\* an update_deal_stage that looks at the capabilities before the deal
update_deal_stage_capability_first(s, caller, id, stage) ==
    IF ~IsOk(require_admin(s, caller))
    THEN [s |-> s, ret |-> require_admin(s, caller)]
    ELSE IF /\ ~has_permission(s, caller, "EditAllDeals")
            /\ ~has_permission(s, caller, "EditOwnDeals")
    THEN [s |-> s, ret |-> Err("Unauthorized: Cannot update this deal")]
    ELSE IF State_get_deal(s, id) = None
    THEN [s |-> s, ret |-> Err("Deal not found")]
    ELSE LET deal == Unwrap(State_get_deal(s, id))
             has_edit_all == has_permission(s, caller, "EditAllDeals")
             has_edit_own == has_permission(s, caller, "EditOwnDeals")
             is_owner == deal.owner_id = Some(caller)
         IN IF ~has_edit_all /\ ~(has_edit_own /\ is_owner)
            THEN [s |-> s, ret |-> Err("Unauthorized: Cannot update this deal")]
            ELSE LET u == State_update_deal_stage(s, id, stage)
                 IN IF u.ret = None
                    THEN [s |-> u.s, ret |-> Err("Failed to update deal stage")]
                    ELSE [s |-> record_audit_log(
                                    u.s, caller, "update_deal_stage", "deal",
                                    to_string(id), Details),
                          ret |-> Ok(Unwrap(u.ret))]

\* update_deal_stage (lib.rs:602-644)
update_deal_stage(s, caller, id, stage) ==
    IF ~IsOk(require_admin(s, caller))
    THEN [s |-> s, ret |-> require_admin(s, caller)]
    ELSE IF State_get_deal(s, id) = None
    THEN [s |-> s, ret |-> Err("Deal not found")]
    ELSE LET deal == Unwrap(State_get_deal(s, id))
             has_edit_all == has_permission(s, caller, "EditAllDeals")
             has_edit_own == has_permission(s, caller, "EditOwnDeals")
             is_owner == deal.owner_id = Some(caller)
         IN IF ~has_edit_all /\ ~(has_edit_own /\ is_owner)
            THEN [s |-> s, ret |-> Err("Unauthorized: Cannot update this deal")]
            ELSE LET u == State_update_deal_stage(s, id, stage)
                 IN IF u.ret = None
                    THEN [s |-> u.s, ret |-> Err("Failed to update deal stage")]
                    ELSE [s |-> record_audit_log(
                                    u.s, caller, "update_deal_stage", "deal",
                                    to_string(id), Details),
                          ret |-> Ok(Unwrap(u.ret))]

\* update_deal (lib.rs:650-699)
update_deal(s, caller, request) ==
    IF ~IsOk(require_admin(s, caller))
    THEN [s |-> s, ret |-> require_admin(s, caller)]
    ELSE IF State_get_deal(s, request.id) = None
    THEN [s |-> s, ret |-> Err("Deal not found")]
    ELSE LET deal == Unwrap(State_get_deal(s, request.id))
             has_edit_all == has_permission(s, caller, "EditAllDeals")
             has_edit_own == has_permission(s, caller, "EditOwnDeals")
             is_owner == deal.owner_id = Some(caller)
         IN IF ~has_edit_all /\ ~(has_edit_own /\ is_owner)
            THEN [s |-> s, ret |-> Err("Unauthorized: Cannot edit this deal")]
            ELSE LET u == State_update_deal(
                              s, request.id, request.name, request.value,
                              request.stage, request.notes,
                              request.expected_close_date)
                 IN IF u.ret = None
                    THEN [s |-> u.s, ret |-> Err("Failed to update deal")]
                    ELSE [s |-> record_audit_log(
                                    u.s, caller, "update_deal", "deal",
                                    to_string(request.id), Details),
                          ret |-> Ok(Unwrap(u.ret))]

\* a delete_deal that writes no audit entry
delete_deal_without_audit(s, caller, id) ==
    IF ~IsOk(require_admin(s, caller))
    THEN [s |-> s, ret |-> require_admin(s, caller)]
    ELSE IF State_get_deal(s, id) = None
    THEN [s |-> s, ret |-> Err("Deal not found")]
    ELSE LET deal == Unwrap(State_get_deal(s, id))
             has_delete_all == has_permission(s, caller, "DeleteAllDeals")
             has_delete_own == has_permission(s, caller, "DeleteOwnDeals")
             is_owner == deal.owner_id = Some(caller)
         IN IF ~has_delete_all /\ ~(has_delete_own /\ is_owner)
            THEN [s |-> s, ret |-> Err("Unauthorized: Cannot delete this deal")]
            ELSE LET d == State_delete_deal(s, id)
                 IN [s |-> d.s, ret |-> Ok(Unwrap(d.ret))]

\* a delete_deal open to every admin
delete_deal_for_any_admin(s, caller, id) ==
    IF ~IsOk(require_admin(s, caller))
    THEN [s |-> s, ret |-> require_admin(s, caller)]
    ELSE IF State_get_deal(s, id) = None
    THEN [s |-> s, ret |-> Err("Deal not found")]
    ELSE LET s1 == record_audit_log(s, caller, "delete_deal", "deal",
                                    to_string(id), Details)
             d == State_delete_deal(s1, id)
         IN [s |-> d.s, ret |-> Ok(Unwrap(d.ret))]

\* delete_deal (lib.rs:705-743)
delete_deal(s, caller, id) ==
    IF ~IsOk(require_admin(s, caller))
    THEN [s |-> s, ret |-> require_admin(s, caller)]
    ELSE IF State_get_deal(s, id) = None
    THEN [s |-> s, ret |-> Err("Deal not found")]
    ELSE LET deal == Unwrap(State_get_deal(s, id))
             has_delete_all == has_permission(s, caller, "DeleteAllDeals")
             has_delete_own == has_permission(s, caller, "DeleteOwnDeals")
             is_owner == deal.owner_id = Some(caller)
         IN IF ~has_delete_all /\ ~(has_delete_own /\ is_owner)
            THEN [s |-> s, ret |-> Err("Unauthorized: Cannot delete this deal")]
            ELSE LET s1 == record_audit_log(s, caller, "delete_deal", "deal",
                                            to_string(id), Details)
                     d == State_delete_deal(s1, id)
                 IN IF d.ret = None
                    THEN [s |-> d.s, ret |-> Err("Failed to delete deal")]
                    ELSE [s |-> d.s, ret |-> Ok(Unwrap(d.ret))]

\* get_deals (lib.rs:748-758)
get_deals(s, caller, filter, pagination) ==
    IF ~IsOk(require_admin(s, caller))
    THEN require_admin(s, caller)
    ELSE Ok(State_get_deals(s, filter,
                            UnwrapOr(pagination, PaginationParams_default),
                            caller))

\* create_transaction (lib.rs:765-774)
create_transaction(s, caller, request) ==
    IF ~IsOk(require_admin(s, caller))
    THEN [s |-> s, ret |-> require_admin(s, caller)]
    ELSE LET t == State_create_transaction(s, request)
         IN [s |-> t.s, ret |-> Ok(t.ret)]

\* set_feature_flag (lib.rs:804-840)
set_feature_flag(s, caller, request) ==
    IF ~IsOk(require_admin(s, caller))
    THEN [s |-> s, ret |-> require_admin(s, caller)]
    ELSE IF /\ ~has_permission(s, caller, "ManageFeatureFlags")
            /\ ~is_controller(s, caller)
    THEN [s |-> s,
          ret |-> Err("Unauthorized: ManageFeatureFlags permission required")]
    ELSE [s |-> record_audit_log(State_set_feature_flag(s, request), caller,
                                 "set_feature_flag", "feature_flag",
                                 request.key, Details),
          ret |-> Ok(None)]

\* log_activity (lib.rs:868-891)
log_activity(s, caller, user_id, action, metadata) ==
    LET auth == require_authorized_canister_or_admin(
                    s, caller, {"user-service", "auth-service", "frontend"})
    IN IF ~IsOk(auth)
       THEN [s |-> s, ret |-> auth]
       ELSE LET rl == check_rate_limit(s, caller)
            IN IF ~IsOk(rl.ret)
               THEN rl
               ELSE LET s1 == State_log_activity(rl.s, user_id, action, metadata)
                    IN [s |-> IF Len(s1.activity_log) % CLEANUP_PERIOD = 0
                              THEN cleanup_rate_limits(s1)
                              ELSE s1,
                        ret |-> Ok(None)]

\* record_metrics (lib.rs:894-902)
record_metrics(s, caller, snapshot) ==
    IF ~IsOk(require_admin(s, caller))
    THEN [s |-> s, ret |-> require_admin(s, caller)]
    ELSE [s |-> State_record_metrics(s, snapshot), ret |-> Ok(None)]

\* get_admins (lib.rs:171-175)
get_admins(s, caller) ==
    IF ~IsOk(require_admin(s, caller))
    THEN require_admin(s, caller)
    ELSE Ok(s.admins)

\* get_audit_log (lib.rs:297-323)
get_audit_log(s, caller, action_filter, target_type_filter, actor_filter, limit) ==
    IF ~IsOk(require_admin(s, caller))
    THEN require_admin(s, caller)
    ELSE IF /\ ~has_permission(s, caller, "ViewAuditLogs")
            /\ ~is_controller(s, caller)
    THEN Err("Unauthorized: ViewAuditLogs permission required")
    ELSE Ok(State_get_audit_log(s, action_filter, target_type_filter,
                                actor_filter, limit))

\* get_transactions (lib.rs:776-786)
get_transactions(s, caller, filter, pagination) ==
    IF ~IsOk(require_admin(s, caller))
    THEN require_admin(s, caller)
    ELSE Ok(State_get_transactions(s, filter,
                                   UnwrapOr(pagination, PaginationParams_default)))

\* get_financial_summary (lib.rs:788-795)
get_financial_summary(s, caller, from, to) ==
    IF ~IsOk(require_admin(s, caller))
    THEN require_admin(s, caller)
    ELSE Ok(State_get_financial_summary(s, from, to))

\* is_feature_enabled (lib.rs:847-851): open to every caller
is_feature_enabled(s, caller, key) == State_is_feature_enabled(s, key, caller)

\* list_feature_flags (lib.rs:853-858)
list_feature_flags(s, caller) ==
    IF ~IsOk(require_admin(s, caller))
    THEN require_admin(s, caller)
    ELSE Ok(State_list_feature_flags(s))

\* list_metrics (lib.rs:904-908)
list_metrics(s, caller, from, to, limit) ==
    IF ~IsOk(require_admin(s, caller))
    THEN require_admin(s, caller)
    ELSE Ok(State_list_metrics(s, from, to, limit))

\* get_latest_metrics (lib.rs:910-914)
get_latest_metrics(s, caller) ==
    IF ~IsOk(require_admin(s, caller))
    THEN require_admin(s, caller)
    ELSE Ok(State_get_latest_metrics(s))

\* get_admin_stats (lib.rs:928-941)
get_admin_stats(s, caller) ==
    IF ~IsOk(require_admin(s, caller))
    THEN require_admin(s, caller)
    ELSE Ok([total_contacts |-> Cardinality(DOMAIN s.contacts),
             total_deals |-> Cardinality(DOMAIN s.deals),
             total_transactions |-> Cardinality(DOMAIN s.transactions),
             active_feature_flags |->
                 Cardinality({k \in DOMAIN s.feature_flags :
                                 s.feature_flags[k].enabled})])

\* pre_upgrade (lib.rs:29-35): the snapshot written to stable storage
pre_upgrade(s) == StableState_from(s)

\* a post_upgrade that falls back on the derived State::default(), whose
\* counters start at 0
post_upgrade_with_default_state(restored) ==
    migrate_ownership(IF IsSome(restored)
                      THEN State_from(Unwrap(restored))
                      ELSE [State_new EXCEPT !.next_contact_id = 0,
                                             !.next_deal_id = 0,
                                             !.next_transaction_id = 0,
                                             !.next_audit_log_id = 0])

\* post_upgrade (lib.rs:38-62) on the Option of a restored snapshot
post_upgrade(restored) ==
    migrate_ownership(IF IsSome(restored)
                      THEN State_from(Unwrap(restored))
                      ELSE State_new)

\* one upgrade of the canister: pre_upgrade of the old instance, then
\* post_upgrade of the new one on what it saved
upgrade(s) == post_upgrade(Some(pre_upgrade(s)))

-----------------------------------------------------------------------------
(* Inputs *)

EmailA == <<"a", "@", "x">>
EmailAUpper == <<"A", "@", "x">>
EmailB == <<"b", "@", "x">>
Emails == {EmailA, EmailAUpper, EmailB}

CreateContactRequest(user_id, email, name, source) ==
    [user_id |-> user_id, email |-> email, name |-> name,
     company |-> None, job_title |-> None, interest_area |-> None,
     source |-> source, notes |-> None]

\* two of the three share the lowercased email, two share the user reference
CreateContactRequests ==
    {CreateContactRequest(None, EmailA, None, None),
     CreateContactRequest(Some("u1"), EmailAUpper, Some(<<"A", "b">>), Some("Referral")),
     CreateContactRequest(Some("u1"), EmailB, None, None)}

UpdateContactRequest(id, name, status) ==
    [id |-> id, name |-> name, company |-> None, job_title |-> None,
     interest_area |-> None, notes |-> None, status |-> status]

UpdateContactRequests ==
    {UpdateContactRequest(id, None, Some("Churned")) : id \in 1..(MaxContacts + 1)}

CreateDealRequest(contact_id, value) ==
    [contact_id |-> contact_id, name |-> "deal", value |-> value,
     notes |-> None, expected_close_date |-> None]

CreateDealRequests ==
    {CreateDealRequest(c, None) : c \in 1..(MaxContacts + 1)}

UpdateDealRequest(id, value, stage) ==
    [id |-> id, name |-> None, value |-> value, stage |-> stage,
     notes |-> None, expected_close_date |-> None]

UpdateDealRequests ==
    {UpdateDealRequest(id, Some(7), None) : id \in 1..(MaxDeals + 1)}

ContactIds == 1..(MaxContacts + 1)
DealIds == 1..(MaxDeals + 1)

ContactFilters ==
    {None} \cup
    {Some([status |-> st, source |-> src, search |-> q]) :
        st \in {None, Some("Active")},
        src \in {None, Some("Signup")},
        q \in {None, Some(<<"A">>), Some(<<"b">>)}}

DealFilters ==
    {None} \cup
    {Some([stage |-> st, contact_id |-> c]) :
        st \in {None, Some("Lead")}, c \in {None, Some(1)}}

Paginations ==
    {None} \cup
    {Some([offset |-> o, limit |-> l]) :
        o \in {None, Some(1), Some(3)},
        l \in {None, Some(0), Some(1)}}

TransactionRequests ==
    {[transaction_type |-> "Income", category |-> "Subscription", amount |-> 12,
      currency |-> None, description |-> "sub", reference |-> None,
      date |-> None]}

FlagRequests ==
    {[key |-> "beta", enabled |-> TRUE, description |-> None,
      percentage |-> Some(50), allowed_principals |-> Some(<<"alice">>)]}

MetricsSnapshots ==
    {[total_users |-> n, active_users_24h |-> 0, active_users_7d |-> 0,
      active_users_30d |-> 0, total_captures |-> 0, total_sprints |-> 0,
      total_workspaces |-> 0, timestamp |-> 0] : n \in {1}}

\* advances of the clock between two calls, in seconds
TickSteps == {30, 61}

-----------------------------------------------------------------------------
(* Initial state: init (lib.rs:14-26) called with Some([ctrl]), on a        *)
(* canister whose platform controller is ctrl                               *)

Init ==
    /\ Holds([State_new EXCEPT !.controllers = <<"ctrl">>,
                               !.admins = <<"ctrl">>])
    /\ now = 0
    /\ canister_controllers = <<"ctrl">>
    /\ upgrade_count = 0
    /\ accepted_calls = [p \in Principals |-> <<>>]
    /\ accepted_before_upgrade = [p \in Principals |-> 0]
    /\ rejected_callers = {}
    /\ awaiting = {}

-----------------------------------------------------------------------------
(* Actions: one per update endpoint, the upgrade, and the clock.  A call    *)
(* that returns Err commits the State it leaves (the canister does not      *)
(* trap), which is the State before the call except in log_activity.        *)

History ==
    <<upgrade_count, accepted_calls, accepted_before_upgrade, rejected_callers>>

Env == UNCHANGED <<now, canister_controllers, History, awaiting>>

AddAdmin(caller, principal) ==
    Commit(add_admin(Self, caller, principal).s) /\ Env

RemoveAdmin(caller, principal) ==
    Commit(remove_admin(Self, caller, principal).s) /\ Env

RegisterAuthorizedCanister(caller, role, canister_id) ==
    Commit(register_authorized_canister(Self, caller, role, canister_id).s) /\ Env

UnregisterAuthorizedCanister(caller, role) ==
    Commit(unregister_authorized_canister(Self, caller, role).s) /\ Env

GrantDefaultPermissionsToAllAdmins(caller) ==
    Commit(grant_default_permissions_to_all_admins(Self, caller).s) /\ Env

GrantPermission(caller, principal, permission) ==
    /\ Len(State_get_permissions(Self, principal)) < MaxGrants
    /\ Commit(grant_permission(Self, caller, principal, permission).s)
    /\ Env

RevokePermission(caller, principal, permission) ==
    Commit(revoke_permission(Self, caller, principal, permission).s) /\ Env

CreateContact(caller, request) ==
    /\ next_contact_id <= MaxContacts
    /\ next_audit_log_id <= MaxAuditId
    /\ Commit(create_contact(Self, caller, request).s)
    /\ Env

CreateContactFromSignup(caller, request) ==
    /\ next_contact_id <= MaxContacts
    /\ next_deal_id <= MaxDeals
    /\ next_audit_log_id + 1 <= MaxAuditId
    /\ Commit(create_contact_from_signup(Self, caller, request).s)
    /\ Env

UpdateContact(caller, request) ==
    /\ next_audit_log_id <= MaxAuditId
    /\ Commit(update_contact(Self, caller, request).s)
    /\ Env

DeleteContact(caller, id) ==
    /\ next_audit_log_id <= MaxAuditId
    /\ Commit(delete_contact(Self, caller, id).s)
    /\ Env

CreateDeal(caller, request) ==
    /\ next_deal_id <= MaxDeals
    /\ next_audit_log_id <= MaxAuditId
    /\ Commit(create_deal(Self, caller, request).s)
    /\ Env

UpdateDealStage(caller, id, stage) ==
    /\ next_audit_log_id <= MaxAuditId
    /\ Commit(update_deal_stage(Self, caller, id, stage).s)
    /\ Env

UpdateDeal(caller, request) ==
    /\ next_audit_log_id <= MaxAuditId
    /\ Commit(update_deal(Self, caller, request).s)
    /\ Env

DeleteDeal(caller, id) ==
    /\ next_audit_log_id <= MaxAuditId
    /\ Commit(delete_deal(Self, caller, id).s)
    /\ Env

CreateTransactionUpTo(max, caller, request) ==
    /\ next_transaction_id <= max
    /\ Commit(create_transaction(Self, caller, request).s)
    /\ Env

CreateTransaction(caller, request) ==
    CreateTransactionUpTo(MaxTransactions, caller, request)

SetFeatureFlag(caller, request) ==
    /\ next_audit_log_id <= MaxAuditId
    /\ Commit(set_feature_flag(Self, caller, request).s)
    /\ Env

RecordMetrics(caller, snapshot) ==
    Commit(record_metrics(Self, caller, snapshot).s) /\ Env

LogActivity(caller, user_id, action, metadata) ==
    LET r == log_activity(Self, caller, user_id, action, metadata)
        limited == IsOk(require_authorized_canister_or_admin(
                            Self, caller,
                            {"user-service", "auth-service", "frontend"}))
    IN /\ Len(accepted_calls[caller]) < MaxCalls
       /\ Commit(r.s)
       /\ accepted_calls' =
              IF IsOk(r.ret)
              THEN [accepted_calls EXCEPT ![caller] = Append(@, now)]
              ELSE accepted_calls
       /\ rejected_callers' =
              IF limited /\ ~IsOk(r.ret)
              THEN rejected_callers \cup {caller}
              ELSE rejected_callers
       /\ UNCHANGED <<now, canister_controllers, upgrade_count,
                      accepted_before_upgrade, awaiting>>

UpgradeUpTo(max) ==
    /\ upgrade_count < max
    /\ Commit(upgrade(Self))
    /\ upgrade_count' = upgrade_count + 1
    /\ accepted_before_upgrade' =
           [p \in Principals |-> Len(accepted_calls[p])]
    /\ UNCHANGED <<now, canister_controllers, accepted_calls, rejected_callers,
                   awaiting>>

Upgrade == UpgradeUpTo(MaxUpgrades)

\* an upgrade whose stable_restore fails (lib.rs:39-48, the Err arm): the new
\* instance finds no snapshot it can decode
UpgradeWithoutSnapshot ==
    /\ upgrade_count < MaxUpgrades
    /\ Commit(post_upgrade(None))
    /\ upgrade_count' = upgrade_count + 1
    /\ accepted_before_upgrade' =
           [p \in Principals |-> Len(accepted_calls[p])]
    /\ UNCHANGED <<now, canister_controllers, accepted_calls, rejected_callers,
                   awaiting>>

\* the platform's clock advances between calls
Tick(d) ==
    /\ now + d <= MaxTime
    /\ now' = now + d
    /\ UNCHANGED <<controllers, admins, authorized_canisters, admin_permissions,
                   rate_limit_buckets,
                   contacts, contacts_by_email, contacts_by_user, next_contact_id,
                   deals, deals_by_contact, next_deal_id,
                   transactions, next_transaction_id,
                   activity_log, metrics_history, feature_flags,
                   audit_log, next_audit_log_id, canister_controllers, History,
                   awaiting>>

-----------------------------------------------------------------------------
(* Spec: the record store, its indexes and the upgrade.  ctrl is the        *)
(* controller, alice an admin it adds, bob the user-service canister.       *)

Next ==
    \/ \E caller \in Principals : AddAdmin(caller, "alice")
    \/ \E caller \in Principals :
            RegisterAuthorizedCanister(caller, "user-service", "bob")
    \/ \E caller \in Principals, request \in CreateContactRequests :
            CreateContact(caller, request)
    \/ \E caller \in Principals, request \in CreateContactRequests :
            CreateContactFromSignup(caller, request)
    \/ \E caller \in Principals, request \in UpdateContactRequests :
            UpdateContact(caller, request)
    \/ \E caller \in Principals, id \in ContactIds : DeleteContact(caller, id)
    \/ \E caller \in Principals, request \in CreateDealRequests :
            CreateDeal(caller, request)
    \/ \E caller \in Principals, id \in DealIds : DeleteDeal(caller, id)
    \/ Upgrade

Spec == Init /\ [][Next]_vars

-----------------------------------------------------------------------------
(* SpecView: the listings under row-level security.  ctrl makes bob an      *)
(* admin and grants or revokes its view capabilities; both create records.  *)

ViewPermissions ==
    {"ViewOwnContacts", "ViewAllContacts", "ViewOwnDeals", "ViewAllDeals"}

ViewContactRequests ==
    {CreateContactRequest(None, EmailA, None, None),
     CreateContactRequest(None, EmailB, Some(<<"A", "b">>), Some("Referral"))}

NextView ==
    \/ \E caller \in Principals : AddAdmin(caller, "bob")
    \/ \E caller \in Principals, permission \in ViewPermissions :
            GrantPermission(caller, "bob", permission)
    \/ \E caller \in Principals, permission \in ViewPermissions :
            RevokePermission(caller, "bob", permission)
    \/ \E caller \in Principals, request \in ViewContactRequests :
            CreateContact(caller, request)
    \/ \E caller \in Principals, request \in CreateDealRequests :
            CreateDeal(caller, request)

SpecView == Init /\ [][NextView]_vars

-----------------------------------------------------------------------------
(* SpecEdit: updates and deletes under the ownership rule.  ctrl makes bob  *)
(* an admin and grants or revokes its edit and delete capabilities.         *)

EditPermissions ==
    {"EditOwnContacts", "EditAllContacts", "DeleteOwnContacts", "DeleteAllContacts",
     "EditOwnDeals", "EditAllDeals", "DeleteOwnDeals", "DeleteAllDeals"}

EditContactRequests == {CreateContactRequest(None, EmailA, None, None)}

\* the first record of each family and an id that is never issued
EditContactIds == {1, MaxContacts + 1}
EditDealIds == {1, MaxDeals + 1}

\* the controller and the admin it adds
EditCallers == {"ctrl", "bob"}

NextEdit ==
    \/ \E caller \in EditCallers : AddAdmin(caller, "bob")
    \/ \E caller \in EditCallers, permission \in EditPermissions :
            GrantPermission(caller, "bob", permission)
    \/ \E caller \in EditCallers, request \in EditContactRequests :
            CreateContact(caller, request)
    \/ \E caller \in EditCallers, c \in EditContactIds :
            CreateDeal(caller, CreateDealRequest(c, None))
    \/ \E caller \in EditCallers, id \in EditContactIds :
            UpdateContact(caller, UpdateContactRequest(id, None, Some("Churned")))
    \/ \E caller \in EditCallers, id \in EditContactIds : DeleteContact(caller, id)
    \/ \E caller \in EditCallers, id \in EditDealIds :
            UpdateDeal(caller, UpdateDealRequest(id, Some(7), None))
    \/ \E caller \in EditCallers, id \in EditDealIds :
            UpdateDealStage(caller, id, "ClosedWon")
    \/ \E caller \in EditCallers, id \in EditDealIds : DeleteDeal(caller, id)

SpecEdit == Init /\ [][NextEdit]_vars

-----------------------------------------------------------------------------
(* SpecUpgrade: every family of primary state is populated, then the        *)
(* canister is upgraded.                                                    *)

NextUpgrade ==
    \/ \E caller \in Principals : AddAdmin(caller, "alice")
    \/ \E caller \in Principals :
            RegisterAuthorizedCanister(caller, "frontend", "bob")
    \/ \E caller \in Principals :
            GrantPermission(caller, "alice", "ManageFeatureFlags")
    \/ \E caller \in Principals, request \in EditContactRequests :
            CreateContact(caller, request)
    \/ \E caller \in Principals :
            CreateDeal(caller, CreateDealRequest(1, Some(7)))
    \/ \E caller \in Principals, request \in TransactionRequests :
            CreateTransaction(caller, request)
    \/ \E caller \in Principals, request \in FlagRequests :
            SetFeatureFlag(caller, request)
    \/ \E caller \in Principals, snapshot \in MetricsSnapshots :
            RecordMetrics(caller, snapshot)
    \/ Upgrade

SpecUpgrade == Init /\ [][NextUpgrade]_vars

-----------------------------------------------------------------------------
(* SpecRate: the rate-limited log_activity under an advancing clock.  ctrl  *)
(* calls as an admin, bob as the registered frontend canister; alice is     *)
(* neither.                                                                 *)

NextRate ==
    \/ \E caller \in Principals :
            RegisterAuthorizedCanister(caller, "frontend", "bob")
    \/ \E caller \in Principals : LogActivity(caller, "u1", "login", None)
    \/ \E d \in TickSteps : Tick(d)
    \/ Upgrade

SpecRate == Init /\ [][NextRate]_vars

-----------------------------------------------------------------------------
(* Properties of the record store (under Spec) *)

\* whether the audit log holds an entry of this action
Audited(action) ==
    \E i \in 1..Len(audit_log) : audit_log[i].action = action

\* C4, first half: every deal's contact_id is the id of a contact in the store
DealsHaveLiveContact ==
    \A d \in DOMAIN deals : deals[d].contact_id \in DOMAIN contacts

\* C4, second half: a successful delete_contact(c) removes exactly the deals
\* whose contact_id is c, removes c from the contact->deal-ids index, and
\* leaves every other deal and every other index entry as it was
DeleteContactCascades ==
    \A caller \in Principals, c \in ContactIds :
        LET r == delete_contact(Self, caller, c)
        IN IsOk(r.ret) =>
            /\ DOMAIN r.s.deals = {d \in DOMAIN deals : deals[d].contact_id # c}
            /\ \A d \in DOMAIN r.s.deals : r.s.deals[d] = deals[d]
            /\ DOMAIN r.s.deals_by_contact = DOMAIN deals_by_contact \ {c}
            /\ \A k \in DOMAIN r.s.deals_by_contact :
                   r.s.deals_by_contact[k] = deals_by_contact[k]

\* C4: in every reachable state each deal refers to a live contact, and
\* delete_contact cascades to exactly the deals of the deleted contact
C4_DealsReferToLiveContacts == DealsHaveLiveContact /\ DeleteContactCascades

\* C4 witness: a delete_contact has run on a contact that had a deal, while a
\* deal of another contact is still in the store
C4_Witness ==
    /\ Audited("delete_contact")
    /\ next_deal_id = 3
    /\ Cardinality(DOMAIN deals) = 1
    /\ Cardinality(DOMAIN contacts) = 1
    /\ DOMAIN deals_by_contact = DOMAIN contacts

\* the letter cases an email is looked up in
CaseVariants(email) ==
    {email, to_lowercase(email)} \cup {e \in Emails : to_lowercase(e) = to_lowercase(email)}

\* the id and email lookups agree in state s, and the indexes map each
\* contact's lowercased email and user reference to that contact's id
LookupsAgree(s) ==
    \A id \in DOMAIN s.contacts :
        LET c == s.contacts[id]
        IN /\ \A e \in CaseVariants(c.email) :
                  get_contact_by_email(s, "ctrl", e) = get_contact(s, "ctrl", id)
           /\ to_lowercase(c.email) \in DOMAIN s.contacts_by_email
           /\ s.contacts_by_email[to_lowercase(c.email)] = id
           /\ IsSome(c.user_id) =>
                  /\ Unwrap(c.user_id) \in DOMAIN s.contacts_by_user
                  /\ s.contacts_by_user[Unwrap(c.user_id)] = id

\* C5: for every contact in the store, the lookup by id and the lookup by its
\* email in any letter case return the same record, before and after an upgrade
C5_LookupByIdAndEmailAgree == LookupsAgree(Self) /\ LookupsAgree(upgrade(Self))

\* the three derived indexes as restore rebuilds them from the primary mappings
Rebuilt == State_from(StableState_from(Self))

\* C9: in every reachable state the email index, the user-reference index and
\* the contact->deal-ids index equal the indexes rebuilt from contacts and deals
C9_IndexesEqualRebuilt ==
    /\ contacts_by_email = Rebuilt.contacts_by_email
    /\ contacts_by_user = Rebuilt.contacts_by_user
    /\ deals_by_contact = Rebuilt.deals_by_contact

-----------------------------------------------------------------------------
(* Properties of the listings (under SpecView) *)

\* the capability is in the identity's stored grant list
Granted(caller, permission) ==
    /\ caller \in DOMAIN admin_permissions
    /\ \E i \in 1..Len(admin_permissions[caller]) :
           admin_permissions[caller][i] = permission

IsCtrl(caller) == \E i \in 1..Len(controllers) : controllers[i] = caller

OwnedContacts(caller, filter) ==
    {id \in DOMAIN contacts :
        contacts[id].owner_id = Some(caller) /\ ContactPasses(contacts[id], filter)}

OwnedDeals(caller, filter) ==
    {id \in DOMAIN deals :
        deals[id].owner_id = Some(caller) /\ DealPasses(deals[id], filter)}

\* every item of the page is owned by the caller, and total is the count n
OnlyOwn(r, caller, n) ==
    IsOk(r) =>
        /\ \A i \in 1..Len(r[2].items) : r[2].items[i].owner_id = Some(caller)
        /\ r[2].total = n

\* C1: for every filter and pagination, a caller that holds the view-own but
\* not the view-all capability and is no controller receives from
\* get_contacts / get_deals only records it owns, and total counts only those
C1_ViewOwnSeesOnlyOwnRecords ==
    \A caller \in Principals, pagination \in Paginations :
        /\ (/\ Granted(caller, "ViewOwnContacts")
            /\ ~Granted(caller, "ViewAllContacts")
            /\ ~IsCtrl(caller))
           => \A filter \in ContactFilters :
                  OnlyOwn(get_contacts(Self, caller, filter, pagination), caller,
                          Cardinality(OwnedContacts(caller, filter)))
        /\ (/\ Granted(caller, "ViewOwnDeals")
            /\ ~Granted(caller, "ViewAllDeals")
            /\ ~IsCtrl(caller))
           => \A filter \in DealFilters :
                  OnlyOwn(get_deals(Self, caller, filter, pagination), caller,
                          Cardinality(OwnedDeals(caller, filter)))

\* C1 witness: bob holds only the view-own capabilities, the store holds
\* contacts and deals of bob and of ctrl, and bob's listings report one each
C1_Witness ==
    /\ Granted("bob", "ViewOwnContacts") /\ ~Granted("bob", "ViewAllContacts")
    /\ Granted("bob", "ViewOwnDeals") /\ ~Granted("bob", "ViewAllDeals")
    /\ \E a, b \in DOMAIN contacts :
           contacts[a].owner_id = Some("bob") /\ contacts[b].owner_id = Some("ctrl")
    /\ \E a, b \in DOMAIN deals :
           deals[a].owner_id = Some("bob") /\ deals[b].owner_id = Some("ctrl")
    /\ get_contacts(Self, "bob", None, None)[2].total = 1
    /\ Len(get_deals(Self, "bob", None, None)[2].items) = 1

\* the page a caller without view capabilities receives
EmptyPage(pagination) ==
    Ok([items |-> <<>>, total |-> 0,
        offset |-> IF pagination = None THEN 0
                   ELSE UnwrapOr(Unwrap(pagination).offset, 0),
        limit |-> IF pagination = None THEN 50
                  ELSE UnwrapOr(Unwrap(pagination).limit, 50)])

IsAdminNow(caller) == \E i \in 1..Len(admins) : admins[i] = caller

\* C2: an admin that holds neither view capability of an entity type and is no
\* controller receives items = [], total = 0 and the requested offset and
\* limit (0 and 50 when absent), never an error, whatever the store holds
C2_NoViewCapabilityEmptyPage ==
    \A caller \in Principals, pagination \in Paginations :
        (IsAdminNow(caller) /\ ~IsCtrl(caller)) =>
            /\ (~Granted(caller, "ViewOwnContacts") /\ ~Granted(caller, "ViewAllContacts"))
               => \A filter \in ContactFilters :
                      get_contacts(Self, caller, filter, pagination)
                          = EmptyPage(pagination)
            /\ (~Granted(caller, "ViewOwnDeals") /\ ~Granted(caller, "ViewAllDeals"))
               => \A filter \in DealFilters :
                      get_deals(Self, caller, filter, pagination)
                          = EmptyPage(pagination)

\* C2 witness: bob is an admin without any view capability, and the store
\* holds a contact and a deal that bob owns
C2_Witness ==
    /\ IsAdminNow("bob") /\ ~IsCtrl("bob")
    /\ \A permission \in ViewPermissions : ~Granted("bob", permission)
    /\ \E a \in DOMAIN contacts : contacts[a].owner_id = Some("bob")
    /\ \E a \in DOMAIN deals : deals[a].owner_id = Some("bob")
    /\ get_deals(Self, "bob", None, Some([offset |-> Some(1), limit |-> None]))
           = Ok([items |-> <<>>, total |-> 0, offset |-> 1, limit |-> 50])

-----------------------------------------------------------------------------
(* Properties of update and delete (under SpecEdit) *)

\* the ownership rule of the spec: the '-all' capability, or the '-own'
\* capability on a record the caller owns; controllers hold every capability
Allowed(caller, owner_id, own, all) ==
    \/ IsCtrl(caller)
    \/ Granted(caller, all)
    \/ Granted(caller, own) /\ owner_id = Some(caller)

\* the call succeeds when allowed; otherwise it fails with the Unauthorized
\* message and leaves the whole State as it was
Ruled(r, allowed, message) ==
    IF allowed THEN IsOk(r.ret)
    ELSE r.ret = Err(message) /\ r.s = Self

ContactUpdates(id) ==
    {UpdateContactRequest(id, name, status) :
        name \in {None, Some(<<"Z">>)}, status \in {None, Some("Churned")}}

DealUpdates(id) ==
    {UpdateDealRequest(id, value, stage) :
        value \in {None, Some(7)}, stage \in {None, Some("ClosedWon")}}

\* C3: update_contact, delete_contact, update_deal, update_deal_stage and
\* delete_deal on an existing record, called by an admin, succeed iff the
\* caller holds the '-all' capability or holds the '-own' capability and owns
\* the record; otherwise they fail with Unauthorized and change nothing
C3_EditDeleteFollowOwnershipRule ==
    \A caller \in Principals :
        IsAdminNow(caller) =>
            /\ \A id \in DOMAIN contacts :
                   /\ \A request \in ContactUpdates(id) :
                          Ruled(update_contact(Self, caller, request),
                                Allowed(caller, contacts[id].owner_id,
                                        "EditOwnContacts", "EditAllContacts"),
                                "Unauthorized: Cannot edit this contact")
                   /\ Ruled(delete_contact(Self, caller, id),
                            Allowed(caller, contacts[id].owner_id,
                                    "DeleteOwnContacts", "DeleteAllContacts"),
                            "Unauthorized: Cannot delete this contact")
            /\ \A id \in DOMAIN deals :
                   /\ \A request \in DealUpdates(id) :
                          Ruled(update_deal(Self, caller, request),
                                Allowed(caller, deals[id].owner_id,
                                        "EditOwnDeals", "EditAllDeals"),
                                "Unauthorized: Cannot edit this deal")
                   /\ \A stage \in DealStage :
                          Ruled(update_deal_stage(Self, caller, id, stage),
                                Allowed(caller, deals[id].owner_id,
                                        "EditOwnDeals", "EditAllDeals"),
                                "Unauthorized: Cannot update this deal")
                   /\ Ruled(delete_deal(Self, caller, id),
                            Allowed(caller, deals[id].owner_id,
                                    "DeleteOwnDeals", "DeleteAllDeals"),
                            "Unauthorized: Cannot delete this deal")

\* C3 witness: bob, no controller, has updated or deleted a record under an
\* '-own' capability, and is refused on a contact that ctrl owns
C3_Witness ==
    /\ ~IsCtrl("bob")
    /\ \E i \in 1..Len(audit_log) :
           /\ audit_log[i].actor = "bob"
           /\ audit_log[i].action \in
                  {"update_contact", "delete_contact", "update_deal",
                   "update_deal_stage", "delete_deal"}
    /\ \A permission \in {"EditAllContacts", "DeleteAllContacts",
                          "EditAllDeals", "DeleteAllDeals"} :
           ~Granted("bob", permission)
    /\ \E id \in DOMAIN contacts :
           /\ contacts[id].owner_id = Some("ctrl")
           /\ delete_contact(Self, "bob", id).ret
                  = Err("Unauthorized: Cannot delete this contact")

-----------------------------------------------------------------------------
(* Properties of the rate limiter and the activity log (under SpecRate) *)

\* the identity passes log_activity's authorization, so the limiter decides
Limited(p) ==
    IsOk(require_authorized_canister_or_admin(
             Self, p, {"user-service", "auth-service", "frontend"}))

\* the accepted calls of p, from the from-th on, no older than the window
InWindow(p, from) ==
    {i \in from..Len(accepted_calls[p]) :
        accepted_calls[p][i] >= now - RATE_LIMIT_WINDOW_NS}

Accepted(p) == IsOk(log_activity(Self, p, "u1", "login", None).ret)

\* C6 as amended: a rate-limited call is accepted iff fewer than the maximum
\* of the identity's calls accepted since the last upgrade lie in the window;
\* other identities' calls do not enter the count
C6_AcceptedIffBelowMaxSinceUpgrade ==
    \A p \in Principals :
        Limited(p) =>
            (Accepted(p) <=>
                Cardinality(InWindow(p, accepted_before_upgrade[p] + 1))
                    < RATE_LIMIT_MAX_CALLS)

\* C6 as stated: a rate-limited call is accepted iff fewer than the maximum of
\* the identity's previously accepted calls lie in the window
C6_AcceptedIffBelowMax ==
    \A p \in Principals :
        Limited(p) =>
            (Accepted(p) <=>
                Cardinality(InWindow(p, 1)) < RATE_LIMIT_MAX_CALLS)

\* C6 witness: ctrl was rejected after a full window of accepted calls, now
\* is rejected again, and another identity has been accepted meanwhile
C6_Witness ==
    /\ "ctrl" \in rejected_callers
    /\ Len(accepted_calls["ctrl"]) = RATE_LIMIT_MAX_CALLS
    /\ Cardinality(InWindow("ctrl", 1)) = RATE_LIMIT_MAX_CALLS
    /\ ~Accepted("ctrl")
    /\ Len(accepted_calls["bob"]) > 0
    /\ Accepted("bob")

LastAccepted(p) == accepted_calls[p][Len(accepted_calls[p])]

\* C7: once an identity has been rejected and the clock is more than the
\* window past its last accepted call, its next call succeeds and leaves no
\* timestamp older than now minus the window in its bucket
C7_NextCallAfterWindowSucceeds ==
    \A p \in rejected_callers :
        (/\ Limited(p)
         /\ Len(accepted_calls[p]) > 0
         /\ now > LastAccepted(p) + RATE_LIMIT_WINDOW_NS)
        => LET r == log_activity(Self, p, "u1", "login", None)
           IN /\ IsOk(r.ret)
              /\ p \in DOMAIN r.s.rate_limit_buckets
              /\ \A i \in 1..Len(r.s.rate_limit_buckets[p]) :
                     r.s.rate_limit_buckets[p][i] >= now - RATE_LIMIT_WINDOW_NS

\* C7 witness: ctrl was rejected, the clock went past the window, and the
\* call ctrl made then was accepted and left only its own timestamp
C7_Witness ==
    /\ "ctrl" \in rejected_callers
    /\ Len(accepted_calls["ctrl"]) = RATE_LIMIT_MAX_CALLS + 1
    /\ LastAccepted("ctrl")
           > accepted_calls["ctrl"][RATE_LIMIT_MAX_CALLS] + RATE_LIMIT_WINDOW_NS
    /\ LastAccepted("ctrl") = now
    /\ "ctrl" \in DOMAIN rate_limit_buckets
    /\ rate_limit_buckets["ctrl"] = <<now>>

\* C10: after pre_upgrade followed by post_upgrade the activity log equals the
\* activity log before the upgrade
C10_ActivityLogSurvivesUpgrade == upgrade(Self).activity_log = activity_log

-----------------------------------------------------------------------------
(* Properties of the upgrade (under SpecUpgrade) *)

\* the primary state: everything but the indexes, the buckets and the
\* activity log
Primary(s) ==
    [controllers |-> s.controllers,
     admins |-> s.admins,
     authorized_canisters |-> s.authorized_canisters,
     admin_permissions |-> s.admin_permissions,
     contacts |-> s.contacts,
     deals |-> s.deals,
     transactions |-> s.transactions,
     feature_flags |-> s.feature_flags,
     audit_log |-> s.audit_log,
     metrics_history |-> s.metrics_history,
     next_contact_id |-> s.next_contact_id,
     next_deal_id |-> s.next_deal_id,
     next_transaction_id |-> s.next_transaction_id,
     next_audit_log_id |-> s.next_audit_log_id]

\* C8: from every reachable state, pre_upgrade followed by post_upgrade gives
\* a state whose primary fields, the four next-id counters included, equal
\* those before the upgrade
C8_UpgradeKeepsPrimaryState == Primary(upgrade(Self)) = Primary(Self)

\* C8 witness: the canister has been upgraded with every family populated
C8_Witness ==
    /\ upgrade_count = 1
    /\ Len(admins) = 2
    /\ DOMAIN authorized_canisters # {}
    /\ DOMAIN admin_permissions # {}
    /\ DOMAIN contacts # {}
    /\ DOMAIN deals # {}
    /\ DOMAIN transactions # {}
    /\ DOMAIN feature_flags # {}
    /\ Len(audit_log) > 0
    /\ Len(metrics_history) > 0

-----------------------------------------------------------------------------
(* SpecMigrate: the canister resumes from a snapshot written before the     *)
(* owner fields existed (#[serde(default)] on owner_id and created_by,      *)
(* types.rs:52-53 and 119-123, and on the audit fields of StableState), and *)
(* is then upgraded again while the admin list changes.                     *)

LegacyContact(id, email, owner_id) ==
    [id |-> id, user_id |-> None, email |-> email, name |-> None,
     company |-> None, job_title |-> None, interest_area |-> None,
     source |-> "Signup", notes |-> None, status |-> "Active",
     owner_id |-> owner_id, team_id |-> None, created_at |-> 0, updated_at |-> 0]

LegacyDeal(id, contact_id, owner_id) ==
    [id |-> id, contact_id |-> contact_id, name |-> "deal", value |-> None,
     stage |-> "Lead", notes |-> None, expected_close_date |-> None,
     owner_id |-> owner_id, created_by |-> owner_id,
     created_at |-> 0, updated_at |-> 0]

\* contact 1 and deal 1 carry no owner; contact 2 and deal 2 carry one
LegacySnapshot(legacy_admins) ==
    [controllers |-> <<"ctrl">>,
     admins |-> legacy_admins,
     authorized_canisters |-> <<>>,
     admin_permissions |-> <<>>,
     contacts |-> << <<1, LegacyContact(1, EmailA, None)>>,
                     <<2, LegacyContact(2, EmailB, Some("bob"))>> >>,
     next_contact_id |-> 3,
     deals |-> << <<1, LegacyDeal(1, 1, None)>>,
                  <<2, LegacyDeal(2, 2, Some("bob"))>> >>,
     next_deal_id |-> 3,
     transactions |-> <<>>,
     next_transaction_id |-> 1,
     feature_flags |-> <<>>,
     metrics_history |-> <<>>,
     audit_log |-> <<>>,
     next_audit_log_id |-> 0]

\* the admin lists of the snapshot: none left, or the controller
LegacyAdmins == {<<>>, <<"ctrl">>}

InitMigrate ==
    /\ \E legacy_admins \in LegacyAdmins :
           Holds(post_upgrade(Some(LegacySnapshot(legacy_admins))))
    /\ now = 0
    /\ canister_controllers = <<"ctrl">>
    /\ upgrade_count = 0
    /\ accepted_calls = [p \in Principals |-> <<>>]
    /\ accepted_before_upgrade = [p \in Principals |-> 0]
    /\ rejected_callers = {}
    /\ awaiting = {}

NextMigrate ==
    \/ \E caller \in Principals, principal \in Principals :
            AddAdmin(caller, principal)
    \/ \E caller \in Principals, principal \in Principals :
            RemoveAdmin(caller, principal)
    \/ UpgradeUpTo(MaxMigrations)

SpecMigrate == InitMigrate /\ [][NextMigrate]_vars

(* Properties of the ownership migration (under SpecMigrate) *)

\* the snapshot the next upgrade restores is the one taken of the current state
Resumed == upgrade(Self)

OwnerLess(record) == record.owner_id = None

\* the only change the claim allows to a record restored with no owner
WithOwner(record, admin) == [record EXCEPT !.owner_id = Some(admin)]

\* what the code does to a deal: the missing created_by is stamped too
DealMigrated(deal, admin) ==
    [deal EXCEPT !.owner_id = IF @ = None THEN Some(admin) ELSE @,
                 !.created_by = IF @ = None THEN Some(admin) ELSE @]

SameRecords ==
    /\ Resumed.admins = admins
    /\ DOMAIN Resumed.contacts = DOMAIN contacts
    /\ DOMAIN Resumed.deals = DOMAIN deals

ResumedAsMigrated ==
    /\ SameRecords
    /\ \A id \in DOMAIN contacts :
          Resumed.contacts[id] =
              IF OwnerLess(contacts[id]) /\ admins # <<>>
              THEN WithOwner(contacts[id], Head(admins))
              ELSE contacts[id]
    /\ \A id \in DOMAIN deals :
          Resumed.deals[id] =
              IF admins # <<>>
              THEN DealMigrated(deals[id], Head(admins))
              ELSE deals[id]

\* a step never changes an owner that is recorded
OwnerKept ==
    /\ \A id \in DOMAIN contacts :
          ~OwnerLess(contacts[id]) =>
              id \in DOMAIN contacts' /\ contacts'[id].owner_id = contacts[id].owner_id
    /\ \A id \in DOMAIN deals :
          ~OwnerLess(deals[id]) =>
              id \in DOMAIN deals' /\ deals'[id].owner_id = deals[id].owner_id

C12_GrantPermissionIdempotent ==
    \A caller \in Principals, principal \in Principals,
       permission \in ViewPermissions :
        Granted(principal, permission) =>
            State_get_permissions(
                grant_permission(Self, caller, principal, permission).s,
                principal) = State_get_permissions(Self, principal)

-----------------------------------------------------------------------------
(* SpecAdmin: the canister is installed with one of several controller      *)
(* arguments, and the admin list is then edited and carried over upgrades.  *)

\* init (lib.rs:14-26)
init(s, caller, controllers_arg) ==
    LET effective_controllers == UnwrapOr(controllers_arg, <<caller>>)
    IN [s EXCEPT !.controllers = effective_controllers,
                 !.admins = effective_controllers]

\* the controller lists an installer may pass
InitControllers ==
    {None, Some(<<>>), Some(<<"alice">>), Some(<<"ctrl", "alice">>),
     Some(<<"ctrl", "ctrl">>)}

InitAdmin ==
    /\ \E controllers_arg \in InitControllers :
           Holds(init(State_new, "ctrl", controllers_arg))
    /\ now = 0
    /\ canister_controllers = <<"ctrl">>
    /\ upgrade_count = 0
    /\ accepted_calls = [p \in Principals |-> <<>>]
    /\ accepted_before_upgrade = [p \in Principals |-> 0]
    /\ rejected_callers = {}
    /\ awaiting = {}

NextAdmin ==
    \/ \E caller \in Principals, principal \in Principals :
            AddAdmin(caller, principal)
    \/ \E caller \in Principals, principal \in Principals :
            RemoveAdmin(caller, principal)
    \/ Upgrade

SpecAdmin == InitAdmin /\ [][NextAdmin]_vars

(* Properties of the admin list (under SpecAdmin) *)

NoDuplicates(vec) ==
    \A i, j \in 1..Len(vec) : vec[i] = vec[j] => i = j

AdminsIdempotent ==
    \A caller \in Principals, principal \in Principals :
        /\ VecContains(admins, principal) =>
              add_admin(Self, caller, principal).s.admins = admins
        /\ ~VecContains(admins, principal) =>
              remove_admin(Self, caller, principal).s.admins = admins

\* C13 (as the code has it): adding an identity already in the admin list and
\* removing one that is not in it leave the list as it was, and no call of
\* add_admin or remove_admin and no upgrade puts an identity twice into a list
\* that holds none twice; the list after init is the controller list given to
\* init, repeated identities included.
C13_AdminsIdempotentNoNewDuplicates ==
    /\ []AdminsIdempotent
    /\ [][NoDuplicates(admins) => NoDuplicates(admins')]_vars

\* C13 (as stated): add_admin and remove_admin are idempotent and the admin
\* list never holds the same identity twice, whatever init was given.
C13_AdminsNeverRepeat == AdminsIdempotent /\ NoDuplicates(admins)

\* the controller was removed from the list and added again behind alice
C13_Witness ==
    /\ admins = <<"alice", "ctrl">>
    /\ controllers = <<"ctrl">>
    /\ add_admin(Self, "ctrl", "alice").s.admins = admins

-----------------------------------------------------------------------------
(* SpecPerm: after any of the installations of SpecAdmin, capabilities are  *)
(* granted to and revoked from a controller and a non-controller.           *)

PermPrincipals == {"ctrl", "bob"}
PermPermissions == {"ViewOwnContacts", "ManageFeatureFlags"}

NextPerm ==
    \/ \E caller \in Principals, principal \in PermPrincipals,
          permission \in PermPermissions :
            GrantPermission(caller, principal, permission)
    \/ \E caller \in Principals, principal \in PermPrincipals,
          permission \in PermPermissions :
            RevokePermission(caller, principal, permission)

SpecPerm == InitAdmin /\ [][NextPerm]_vars

(* Properties of has_permission (under SpecPerm) *)

\* C14: has_permission is true for every identity of the controller list and
\* every capability, whatever the permission table holds; for any other
\* identity it is true exactly when the capability is among its stored grants.
C14_HasPermissionControllerOrGranted ==
    \A principal \in Principals, permission \in AdminPermission :
        has_permission(Self, principal, permission) =
            IF IsCtrl(principal) THEN TRUE ELSE Granted(principal, permission)

\* the controller's one grant was revoked and it still holds every capability;
\* bob holds the capability it was granted and no other
C14_Witness ==
    /\ IsCtrl("ctrl") /\ ~IsCtrl("bob")
    /\ "ctrl" \in DOMAIN admin_permissions /\ admin_permissions["ctrl"] = <<>>
    /\ has_permission(Self, "ctrl", "ViewOwnContacts")
    /\ Granted("bob", "ManageFeatureFlags")
    /\ has_permission(Self, "bob", "ManageFeatureFlags")
    /\ ~has_permission(Self, "bob", "ViewOwnContacts")

(* Properties of the admin guard (under SpecUpgrade) *)

\* the anonymous identity calls like any other
GuardCallers == Principals \cup {"anonymous"}

Rejected == Err("Unauthorized: Admin access required")

\* an update endpoint's outcome: the error, and the State as it was
Refused(r) == r.ret = Rejected /\ r.s = Self

UpdatesRefused(caller) ==
    /\ \A request \in CreateContactRequests :
          Refused(create_contact(Self, caller, request))
    /\ \A request \in UpdateContactRequests :
          Refused(update_contact(Self, caller, request))
    /\ \A id \in ContactIds : Refused(delete_contact(Self, caller, id))
    /\ \A request \in CreateDealRequests :
          Refused(create_deal(Self, caller, request))
    /\ \A request \in UpdateDealRequests :
          Refused(update_deal(Self, caller, request))
    /\ \A id \in DealIds, stage \in DealStage :
          Refused(update_deal_stage(Self, caller, id, stage))
    /\ \A id \in DealIds : Refused(delete_deal(Self, caller, id))
    /\ \A request \in TransactionRequests :
          Refused(create_transaction(Self, caller, request))
    /\ \A request \in FlagRequests :
          Refused(set_feature_flag(Self, caller, request))
    /\ \A snapshot \in MetricsSnapshots :
          Refused(record_metrics(Self, caller, snapshot))

QueriesRefused(caller) ==
    /\ \A id \in ContactIds : get_contact(Self, caller, id) = Rejected
    /\ \A email \in Emails : get_contact_by_email(Self, caller, email) = Rejected
    /\ \A filter \in ContactFilters, pagination \in Paginations :
          get_contacts(Self, caller, filter, pagination) = Rejected
    /\ \A id \in DealIds : get_deal(Self, caller, id) = Rejected
    /\ \A filter \in DealFilters, pagination \in Paginations :
          get_deals(Self, caller, filter, pagination) = Rejected
    /\ \A pagination \in Paginations :
          get_transactions(Self, caller, None, pagination) = Rejected
    /\ \A from \in 0..1, to \in 0..1 :
          /\ get_financial_summary(Self, caller, from, to) = Rejected
          /\ \A limit \in {None, Some(1)} :
                list_metrics(Self, caller, from, to, limit) = Rejected
    /\ get_latest_metrics(Self, caller) = Rejected
    /\ get_admins(Self, caller) = Rejected
    /\ list_feature_flags(Self, caller) = Rejected
    /\ \A actor_filter \in {None, Some("ctrl")}, limit \in {None, Some(1)} :
          get_audit_log(Self, caller, None, None, actor_filter, limit) = Rejected
    /\ get_admin_stats(Self, caller) = Rejected

\* C15: every admin-gated endpoint, called by an identity that is neither in
\* the admin list nor in the controller list (the anonymous identity
\* included), returns the Unauthorized error and leaves the State as it was.
C15_NonAdminRefusedStateUnchanged ==
    \A caller \in GuardCallers :
        (~IsAdminNow(caller) /\ ~IsCtrl(caller)) =>
            UpdatesRefused(caller) /\ QueriesRefused(caller)

\* every family of state is populated; bob, a registered canister but no
\* admin, is refused what the controller is allowed
C15_Witness ==
    /\ ~IsAdminNow("bob") /\ ~IsCtrl("bob")
    /\ 1 \in DOMAIN contacts /\ 1 \in DOMAIN deals /\ 1 \in DOMAIN transactions
    /\ feature_flags # <<>> /\ metrics_history # <<>> /\ audit_log # <<>>
    /\ Refused(delete_contact(Self, "bob", 1))
    /\ IsOk(delete_contact(Self, "ctrl", 1).ret)
    /\ get_admin_stats(Self, "bob") = Rejected
    /\ IsOk(get_admin_stats(Self, "ctrl"))

-----------------------------------------------------------------------------
(* SpecSignup: the controller registers, replaces and removes the canisters *)
(* of two roles, and every identity tries the signup endpoint.              *)

SignupRoles == {"user-service", "frontend"}
SignupCanisters == {"alice", "bob"}

NextSignup ==
    \/ \E caller \in Principals, role \in SignupRoles,
          canister_id \in SignupCanisters :
            RegisterAuthorizedCanister(caller, role, canister_id)
    \/ \E caller \in Principals, role \in SignupRoles :
            UnregisterAuthorizedCanister(caller, role)
    \/ \E caller \in Principals, request \in CreateContactRequests :
            CreateContactFromSignup(caller, request)
    \/ Upgrade

SpecSignup == Init /\ [][NextSignup]_vars

(* Properties of the signup endpoint (under SpecSignup) *)

Registered(role, principal) ==
    \E r \in DOMAIN authorized_canisters :
        r = role /\ authorized_canisters[r] = principal

\* C16: create_contact_from_signup succeeds for the identity registered under
\* "user-service" and for no other: every other caller, an admin or the
\* canister of another role included, gets "Unauthorized: Expected
\* user-service canister" and the State is left as it was; no role has two
\* identities registered.
C16_SignupOnlyForUserService ==
    /\ \A caller \in GuardCallers, request \in CreateContactRequests :
          LET r == create_contact_from_signup(Self, caller, request)
          IN IF Registered("user-service", caller)
             THEN IsOk(r.ret)
             ELSE /\ r.ret = Err("Unauthorized: Expected user-service canister")
                  /\ r.s = Self
    /\ \A role \in Roles :
          Cardinality({p \in GuardCallers :
                          is_authorized_canister(Self, role, p)}) <= 1

\* bob signed a contact up while registered, alice has replaced it under the
\* role, and bob, still the frontend canister, is refused
C16_Witness ==
    /\ Registered("user-service", "alice")
    /\ Registered("frontend", "bob")
    /\ 1 \in DOMAIN contacts /\ contacts[1].owner_id = Some("bob")
    /\ \A request \in CreateContactRequests :
          /\ ~IsOk(create_contact_from_signup(Self, "bob", request).ret)
          /\ ~IsOk(create_contact_from_signup(Self, "ctrl", request).ret)
          /\ IsOk(create_contact_from_signup(Self, "alice", request).ret)

\* C17: a successful create_contact_from_signup adds one contact, the one it
\* returns, and exactly one deal, in stage Lead, on that contact; both are
\* owned by the calling service; every other contact and deal is as before.
C17_SignupAddsContactAndLeadDeal ==
    \A caller \in GuardCallers, request \in CreateContactRequests :
        LET r == create_contact_from_signup(Self, caller, request)
        IN IsOk(r.ret) =>
            LET contact == r.ret[2]
                added == DOMAIN r.s.deals \ DOMAIN deals
            IN /\ contact.id \notin DOMAIN contacts
               /\ DOMAIN r.s.contacts = DOMAIN contacts \cup {contact.id}
               /\ r.s.contacts[contact.id] = contact
               /\ contact.email = request.email
               /\ contact.owner_id = Some(caller)
               /\ \A id \in DOMAIN contacts : r.s.contacts[id] = contacts[id]
               /\ DOMAIN deals \subseteq DOMAIN r.s.deals
               /\ \A id \in DOMAIN deals : r.s.deals[id] = deals[id]
               /\ Cardinality(added) = 1
               /\ \A id \in added :
                     /\ r.s.deals[id].stage = "Lead"
                     /\ r.s.deals[id].contact_id = contact.id
                     /\ r.s.deals[id].owner_id = Some(caller)

\* the second signup of the registered service has been stored: each of the
\* two contacts has its own lead deal, owned by the service
C17_Witness ==
    /\ Registered("user-service", "bob")
    /\ DOMAIN contacts = {1, 2} /\ DOMAIN deals = {1, 2}
    /\ \A id \in {1, 2} :
          /\ contacts[id].owner_id = Some("bob")
          /\ deals[id].contact_id = id
          /\ deals[id].stage = "Lead"
          /\ deals[id].owner_id = Some("bob")
    /\ \E i \in DOMAIN audit_log : audit_log[i].action = "create_deal_from_signup"

(* Properties of create_deal (under Spec) *)

\* C18: create_deal for a contact_id that is not the id of a stored contact,
\* called by an admin, fails with "Contact not found" and leaves the State as
\* it was: no deal, next_deal_id, the contact -> deal index and the audit log
\* included.
C18_CreateDealMissingContactChangesNothing ==
    \A caller \in GuardCallers, contact_id \in 0..(MaxContacts + 1) :
        LET r == create_deal(Self, caller, CreateDealRequest(contact_id, Some(7)))
        IN (contact_id \notin DOMAIN contacts) =>
              /\ r.s = Self
              /\ (IsAdminNow(caller) \/ IsCtrl(caller)) =>
                    r.ret = Err("Contact not found")

\* contact 1 was created and deleted, contact 2 is stored: a deal on 1 is
\* refused, a deal on 2 is accepted
C18_Witness ==
    /\ next_contact_id > 2
    /\ 1 \notin DOMAIN contacts /\ 2 \in DOMAIN contacts
    /\ create_deal(Self, "ctrl", CreateDealRequest(1, Some(7))).ret
          = Err("Contact not found")
    /\ IsOk(create_deal(Self, "ctrl", CreateDealRequest(2, Some(7))).ret)

-----------------------------------------------------------------------------
(* SpecLedger: admins record transactions of both types, two categories,    *)
(* two dates and two amounts, the larger at the sign bit of an i64.         *)

LedgerAmounts == {13, U64_MODULUS \div 2}
LedgerDates == {10, 20}

LedgerRequests ==
    {[transaction_type |-> transaction_type, category |-> category,
      amount |-> amount, currency |-> None, description |-> "t",
      reference |-> None, date |-> Some(date)] :
        transaction_type \in {"Income", "Expense"},
        category \in {"Subscription", "Other"},
        amount \in LedgerAmounts, date \in LedgerDates}

NextLedger ==
    \E caller \in Principals, request \in LedgerRequests :
        CreateTransactionUpTo(MaxLedger, caller, request)

SpecLedger == Init /\ [][NextLedger]_vars

(* Properties of the financial summary (under SpecLedger) *)

\* the bounds of the period asked for: before, at, between and after the dates
PeriodBounds == {0, 10, 15, 20, 25}

InPeriod(from, to, transaction_type) ==
    {id \in DOMAIN transactions :
        /\ transactions[id].transaction_type = transaction_type
        /\ from <= transactions[id].date /\ transactions[id].date <= to}

RECURSIVE AmountOf(_)
\* the sum, in the integers, of the amounts of a set of transactions
AmountOf(ids) ==
    IF ids = {} THEN 0
    ELSE LET id == CHOOSE x \in ids : TRUE
         IN transactions[id].amount + AmountOf(ids \ {id})

Income(from, to) == AmountOf(InPeriod(from, to, "Income"))
Expenses(from, to) == AmountOf(InPeriod(from, to, "Expense"))
Subscriptions(from, to) ==
    AmountOf({id \in InPeriod(from, to, "Income") :
                 transactions[id].category = "Subscription"})

Summarised(from, to) ==
    get_financial_summary(Self, "ctrl", from, to) =
        Ok([total_income |-> Income(from, to),
            total_expenses |-> Expenses(from, to),
            net |-> Income(from, to) - Expenses(from, to),
            mrr |-> Subscriptions(from, to) \div 12,
            period_start |-> from,
            period_end |-> to])

-----------------------------------------------------------------------------
(* SpecFlags: the controller sets the two flags to every combination of     *)
(* enabled, percentage and allow-list.                                      *)

FlagPercentages == {None, Some(0), Some(50), Some(100)}
FlagAllowLists == {None, Some(<<>>), Some(<<"alice">>)}

FlagTableRequests ==
    {[key |-> key, enabled |-> enabled, description |-> None,
      percentage |-> percentage, allowed_principals |-> allowed_principals] :
        key \in FlagKeys, enabled \in BOOLEAN,
        percentage \in FlagPercentages, allowed_principals \in FlagAllowLists}

NextFlags ==
    \E caller \in {"ctrl", "bob"}, request \in FlagTableRequests :
        SetFeatureFlag(caller, request)

SpecFlags == Init /\ [][NextFlags]_vars

(* Properties of is_feature_enabled (under SpecFlags) *)

OnAllowList(flag, principal) ==
    \E i \in 1..Len(flag.allowed_principals) :
        flag.allowed_principals[i] = principal

\* C20: is_feature_enabled(key) is false for an unknown key and for a disabled
\* flag; for an enabled flag with a non-empty allow-list it is true exactly
\* for the identities on the list, whatever the percentage; with an empty
\* allow-list it is true for percentage 100, false for percentage 0 and true
\* without a percentage.
C20_FeatureEnabledDecisionTable ==
    \A key \in FlagKeys, principal \in GuardCallers :
        LET enabled == is_feature_enabled(Self, principal, key)
        IN IF key \notin DOMAIN feature_flags THEN ~enabled
           ELSE LET flag == feature_flags[key]
                IN CASE ~flag.enabled -> ~enabled
                     [] flag.enabled /\ flag.allowed_principals # <<>> ->
                            enabled = OnAllowList(flag, principal)
                     [] flag.enabled /\ flag.allowed_principals = <<>> ->
                            /\ flag.percentage = Some(100) => enabled
                            /\ flag.percentage = Some(0) => ~enabled
                            /\ flag.percentage = None => enabled

\* beta is enabled at 0 percent for an allow-list of alice, dark at 100
\* percent without a list; alice has both, bob has dark alone
C20_Witness ==
    /\ DOMAIN feature_flags = FlagKeys
    /\ feature_flags["beta"].enabled /\ feature_flags["dark"].enabled
    /\ feature_flags["beta"].allowed_principals = <<"alice">>
    /\ feature_flags["beta"].percentage = Some(0)
    /\ feature_flags["dark"].allowed_principals = <<>>
    /\ feature_flags["dark"].percentage = Some(100)
    /\ is_feature_enabled(Self, "alice", "beta")
    /\ ~is_feature_enabled(Self, "bob", "beta")
    /\ is_feature_enabled(Self, "bob", "dark")

(* Properties of the percentage rollout (under SpecFlags) *)

RolloutIdentities == GuardCallers \cup {"management", "longest"}

RECURSIVE ByteSum(_)
\* the sum, in the integers, of a sequence of bytes
ByteSum(bytes) ==
    IF bytes = <<>> THEN 0 ELSE Head(bytes) + ByteSum(Tail(bytes))

\* an enabled flag with an empty allow-list and a percentage
RolledOut(key) ==
    /\ key \in DOMAIN feature_flags
    /\ feature_flags[key].enabled
    /\ feature_flags[key].allowed_principals = <<>>
    /\ feature_flags[key].percentage # None

\* C21 (as the code has it): for an enabled flag with an empty allow-list and
\* a percentage p, is_feature_enabled is true exactly when (the sum of the
\* identity's bytes) mod 100 < p, the sum taken in a u64 that 29 bytes cannot
\* overflow, for identities of 0 to 29 bytes.
C21_RolloutBySumMod100 ==
    \A key \in FlagKeys, identity \in RolloutIdentities :
        RolledOut(key) =>
            is_feature_enabled(Self, identity, key) =
                (ByteSum(as_slice(identity)) % 100
                    < Unwrap(feature_flags[key].percentage))

\* C21 (as stated): the sum is reduced modulo 256 before the mod 100.
C21_RolloutBySumMod256Mod100 ==
    \A key \in FlagKeys, identity \in RolloutIdentities :
        RolledOut(key) =>
            is_feature_enabled(Self, identity, key) =
                ((ByteSum(as_slice(identity)) % 256) % 100
                    < Unwrap(feature_flags[key].percentage))

\* beta is rolled out to 50 percent: bob (bytes 200 and 149, sum 349) is in,
\* ctrl (99) and the 29-byte identity (sum 7395) are out
C21_Witness ==
    /\ RolledOut("beta") /\ feature_flags["beta"].percentage = Some(50)
    /\ is_feature_enabled(Self, "bob", "beta")
    /\ ~is_feature_enabled(Self, "ctrl", "beta")
    /\ ~is_feature_enabled(Self, "longest", "beta")
    /\ Len(as_slice("longest")) = 29

-----------------------------------------------------------------------------
(* SpecLogs: the controller appends to the audit log (by setting a flag),   *)
(* to the activity log and to the metrics history until each has           *)
(* overflowed; the clock advances so that the rate limit lets it through.   *)

LogUsers == {"u1", "u2"}

LogSnapshots ==
    {[total_users |-> n, active_users_24h |-> 0, active_users_7d |-> 0,
      active_users_30d |-> 0, total_captures |-> 0, total_sprints |-> 0,
      total_workspaces |-> 0, timestamp |-> 0] : n \in {1, 2}}

NextLogs ==
    \/ \E request \in FlagRequests : SetFeatureFlag("ctrl", request)
    \/ \E caller \in {"ctrl", "alice"}, user_id \in LogUsers :
            LogActivity(caller, user_id, "login", None)
    \/ \E snapshot \in LogSnapshots : RecordMetrics("ctrl", snapshot)
    \/ Tick(61)

SpecLogs == Init /\ [][NextLogs]_vars

(* Properties of the append logs (under SpecLogs) *)

\* `new` is `old` with one entry appended, less its `drain` oldest entries when
\* the append took it over `max`
Retained(old, new, max, drain) ==
    LET dropped == IF Len(old) + 1 > max THEN drain ELSE 0
    IN /\ Len(new) = Len(old) + 1 - dropped
       /\ \A i \in 1..(Len(new) - 1) : new[i] = old[i + dropped]

\* C22: the audit log and the activity log never hold more than their bound
\* (10,000, here AUDIT_LOG_MAX and ACTIVITY_LOG_MAX) and the metrics history
\* never more than its own (365, here METRICS_MAX); an append that takes a log
\* over its bound removes exactly the oldest 1,000 (30 for the metrics)
\* entries, here the DRAIN constants, keeps the others in order and keeps the
\* entry just appended as the last one.
C22_LogsBoundedOldestDropped ==
    /\ Len(audit_log) <= AUDIT_LOG_MAX
    /\ Len(activity_log) <= ACTIVITY_LOG_MAX
    /\ Len(metrics_history) <= METRICS_MAX
    /\ \A actor \in Principals, target_id \in FlagKeys :
          LET new == record_audit_log(Self, actor, "set_feature_flag",
                                      "feature_flag", target_id, Details).audit_log
          IN /\ Retained(audit_log, new, AUDIT_LOG_MAX, AUDIT_LOG_DRAIN)
             /\ new[Len(new)].id = next_audit_log_id
             /\ new[Len(new)].actor = actor
             /\ new[Len(new)].target_id = target_id
    /\ \A user_id \in LogUsers :
          LET new == State_log_activity(Self, user_id, "login", None).activity_log
          IN /\ Retained(activity_log, new, ACTIVITY_LOG_MAX, ACTIVITY_LOG_DRAIN)
             /\ new[Len(new)] = [user_id |-> user_id, action |-> "login",
                                 metadata |-> None, timestamp |-> now]
    /\ \A snapshot \in LogSnapshots :
          LET new == State_record_metrics(Self, snapshot).metrics_history
          IN /\ Retained(metrics_history, new, METRICS_MAX, METRICS_DRAIN)
             /\ new[Len(new)] = snapshot

\* the audit log and the activity log have overflowed and lost their oldest
\* entries; the audit log and the metrics history are full again, so the next
\* append drains them
C22_Witness ==
    /\ Len(audit_log) = AUDIT_LOG_MAX /\ audit_log[1].id > 1
    /\ Len(accepted_calls["ctrl"]) > ACTIVITY_LOG_MAX
    /\ Len(activity_log) = Len(accepted_calls["ctrl"]) - ACTIVITY_LOG_DRAIN
    /\ activity_log[Len(activity_log)].timestamp = now
    /\ Len(metrics_history) = METRICS_MAX
    /\ metrics_history[1] # metrics_history[2]

(* Properties of the audit trail (under SpecEdit) *)

\* the outcome `r` of a call by `caller` on the record `target_id`: accepted
\* with a new audit entry of that actor and target, or refused with the audit
\* log and its counter as they were
AuditedOrRefused(r, caller, target_id) ==
    IF IsOk(r.ret)
    THEN \E i \in DOMAIN r.s.audit_log :
            /\ r.s.audit_log[i].id >= next_audit_log_id
            /\ r.s.audit_log[i].actor = caller
            /\ r.s.audit_log[i].target_id = target_id
    ELSE /\ r.s.audit_log = audit_log
         /\ r.s.next_audit_log_id = next_audit_log_id

\* the id of the record an accepted create returned
Created(r) == IF IsOk(r.ret) THEN to_string(r.ret[2].id) ELSE "none"

CrmAndFlagsAudited(caller) ==
    /\ \A request \in CreateContactRequests :
          LET r == create_contact(Self, caller, request)
          IN AuditedOrRefused(r, caller, Created(r))
    /\ \A request \in UpdateContactRequests :
          AuditedOrRefused(update_contact(Self, caller, request), caller,
                           to_string(request.id))
    /\ \A id \in ContactIds :
          AuditedOrRefused(delete_contact(Self, caller, id), caller, to_string(id))
    /\ \A request \in CreateDealRequests :
          LET r == create_deal(Self, caller, request)
          IN AuditedOrRefused(r, caller, Created(r))
    /\ \A request \in UpdateDealRequests :
          AuditedOrRefused(update_deal(Self, caller, request), caller,
                           to_string(request.id))
    /\ \A id \in DealIds :
          /\ AuditedOrRefused(update_deal_stage(Self, caller, id, "ClosedWon"),
                              caller, to_string(id))
          /\ AuditedOrRefused(delete_deal(Self, caller, id), caller, to_string(id))
    /\ \A request \in FlagRequests :
          AuditedOrRefused(set_feature_flag(Self, caller, request), caller,
                           request.key)

TransactionsAudited(caller) ==
    \A request \in TransactionRequests :
        LET r == create_transaction(Self, caller, request)
        IN AuditedOrRefused(r, caller, Created(r))

\* C23 (as the code has it): every successful create, update or delete of a
\* contact or deal and every successful set of a feature flag appends, in the
\* same call, an audit entry whose actor is the caller and whose target id
\* names the record; one that fails appends none; create_transaction stores
\* the transaction and appends no audit entry.
C23_CrmAndFlagChangesAudited ==
    \A caller \in GuardCallers :
        /\ CrmAndFlagsAudited(caller)
        /\ \A request \in TransactionRequests :
              LET r == create_transaction(Self, caller, request)
              IN /\ r.s.audit_log = audit_log
                 /\ r.s.next_audit_log_id = next_audit_log_id

\* C23 (as stated): the create of a transaction is audited as well.
C23_EveryChangeAudited ==
    \A caller \in GuardCallers :
        CrmAndFlagsAudited(caller) /\ TransactionsAudited(caller)

\* bob, an admin allowed to delete its own deals, owns deal 1: its delete is
\* accepted and audited, its delete of a missing deal is refused, and a
\* transaction is recorded for it
C23_Witness ==
    /\ 1 \in DOMAIN deals /\ deals[1].owner_id = Some("bob")
    /\ IsOk(delete_deal(Self, "bob", 1).ret)
    /\ ~IsOk(delete_deal(Self, "bob", MaxDeals + 1).ret)
    /\ \A request \in TransactionRequests :
          IsOk(create_transaction(Self, "bob", request).ret)
    /\ audit_log # <<>>

-----------------------------------------------------------------------------
(* SpecIds: the controller creates and deletes records of every family, the *)
(* audit log is pruned on the way, and the canister is upgraded.            *)

NextIds ==
    \/ \E request \in CreateContactRequests : CreateContact("ctrl", request)
    \/ \E id \in ContactIds : DeleteContact("ctrl", id)
    \/ \E request \in CreateDealRequests : CreateDeal("ctrl", request)
    \/ \E id \in DealIds : DeleteDeal("ctrl", id)
    \/ \E request \in TransactionRequests :
            CreateTransactionUpTo(MaxLedger, "ctrl", request)
    \/ Upgrade

SpecIds == Init /\ [][NextIds]_vars

(* Properties of the id counters (under SpecIds) *)

\* the ids of the audit entries of a log
AuditIds(log) == {log[i].id : i \in DOMAIN log}

\* every counter starts at 1
CountersAtOne ==
    /\ next_contact_id = 1 /\ next_deal_id = 1
    /\ next_transaction_id = 1 /\ next_audit_log_id = 1

\* every id held is at least 1 and below its family's counter
IdsBelowCounters ==
    /\ \A id \in DOMAIN contacts : 1 <= id /\ id < next_contact_id
    /\ \A id \in DOMAIN deals : 1 <= id /\ id < next_deal_id
    /\ \A id \in DOMAIN transactions : 1 <= id /\ id < next_transaction_id
    /\ \A id \in AuditIds(audit_log) : 1 <= id /\ id < next_audit_log_id
    /\ \A id \in DOMAIN contacts : contacts[id].id = id
    /\ \A id \in DOMAIN deals : deals[id].id = id
    /\ \A id \in DOMAIN transactions : transactions[id].id = id

\* a step never lowers a counter, and an id that appears in a step is one the
\* counter had not passed yet
IdsIssuedFromCounters ==
    /\ next_contact_id' >= next_contact_id
    /\ next_deal_id' >= next_deal_id
    /\ next_transaction_id' >= next_transaction_id
    /\ next_audit_log_id' >= next_audit_log_id
    /\ \A id \in DOMAIN contacts' \ DOMAIN contacts : id >= next_contact_id
    /\ \A id \in DOMAIN deals' \ DOMAIN deals : id >= next_deal_id
    /\ \A id \in DOMAIN transactions' \ DOMAIN transactions :
          id >= next_transaction_id
    /\ \A id \in AuditIds(audit_log') \ AuditIds(audit_log) :
          id >= next_audit_log_id

\* C24: the counters of contacts, deals, transactions and audit entries start
\* at 1; every id held is at least 1 and below its counter; no step (create,
\* delete, prune of the audit log, upgrade) lowers a counter, and an id that
\* appears in a step is at least the counter's value before it, hence greater
\* than every id issued before in its family.
C24_IdsNeverReused ==
    CountersAtOne /\ []IdsBelowCounters /\ [][IdsIssuedFromCounters]_vars

\* after an upgrade: contact 1 and deal 1 were deleted and their ids are not
\* back, the audit log was pruned of its first entries, and the records held
\* carry the later ids
C24_Witness ==
    /\ upgrade_count = 1
    /\ DOMAIN contacts = {2}
    /\ DOMAIN deals = {2}
    /\ DOMAIN transactions = {1, 2}
    /\ Len(audit_log) = AUDIT_LOG_MAX
    /\ audit_log[1].id > 1

-----------------------------------------------------------------------------
(* SpecPages: the paged listings.  ctrl makes bob an admin with the         *)
(* view-own capabilities; both create contacts and deals, ctrl records      *)
(* transactions.                                                            *)

PageCallers == {"ctrl", "bob"}

PagePermissions == {"ViewOwnContacts", "ViewOwnDeals"}

\* offsets and limits inside and beyond the range of usize
PagePaginations ==
    {None} \cup
    {Some([offset |-> o, limit |-> l]) :
        o \in {None, Some(1), Some(3), Some(USIZE_MODULUS), Some(USIZE_MODULUS + 1)},
        l \in {None, Some(0), Some(1), Some(USIZE_MODULUS + 1)}}

PageTransactionFilters ==
    {None} \cup
    {Some([transaction_type |-> ty, category |-> None,
           from_date |-> from, to_date |-> None]) :
        ty \in {None, Some("Income"), Some("Expense")},
        from \in {None, Some(0), Some(MaxTime + 1)}}

NextPages ==
    \/ AddAdmin("ctrl", "bob")
    \/ \E permission \in PagePermissions : GrantPermission("ctrl", "bob", permission)
    \/ \E caller \in PageCallers, request \in CreateContactRequests :
            CreateContact(caller, request)
    \/ \E caller \in PageCallers : CreateDeal(caller, CreateDealRequest(1, None))
    \/ \E request \in TransactionRequests :
            CreateTransactionUpTo(MaxLedger, "ctrl", request)

SpecPages == Init /\ [][NextPages]_vars

(* Properties of the paged listings (under SpecPages) *)

\* the records of a family that satisfy `passes`, in ascending id order
Listed(family, passes(_)) ==
    LET ids == SortedSeq({id \in DOMAIN family : passes(family[id])})
    IN [i \in DOMAIN ids |-> family[ids[i]]]

\* row-level security: everything with the view-all capability, the caller's
\* own records with view-own only, nothing with neither
Viewable(caller, record, view_all, view_own) ==
    \/ has_permission(Self, caller, view_all)
    \/ /\ has_permission(Self, caller, view_own)
       /\ record.owner_id = Some(caller)

\* F[offset .. offset+limit), empty when offset >= |F|
Slice(F, offset, limit) ==
    LET n == IF offset >= Len(F) THEN 0
             ELSE IF limit < Len(F) - offset THEN limit ELSE Len(F) - offset
    IN [i \in 1..n |-> F[offset + i]]

\* the page the statement describes for the list F
PageOf(F, pagination) ==
    LET offset == IF pagination = None THEN 0
                  ELSE UnwrapOr(Unwrap(pagination).offset, 0)
        limit == IF pagination = None THEN 50
                 ELSE UnwrapOr(Unwrap(pagination).limit, 50)
    IN Ok([items |-> Slice(F, offset, limit), total |-> Len(F),
           offset |-> offset, limit |-> limit])

PagesAreSlices(paginations) ==
    \A caller \in PageCallers, pagination \in paginations :
        IsOk(require_admin(Self, caller)) =>
            /\ \A filter \in ContactFilters :
                  get_contacts(Self, caller, filter, pagination) =
                      PageOf(Listed(contacts,
                                    LAMBDA c :
                                       /\ Viewable(caller, c, "ViewAllContacts",
                                                   "ViewOwnContacts")
                                       /\ ContactPasses(c, filter)),
                             pagination)
            /\ \A filter \in DealFilters :
                  get_deals(Self, caller, filter, pagination) =
                      PageOf(Listed(deals,
                                    LAMBDA d :
                                       /\ Viewable(caller, d, "ViewAllDeals",
                                                   "ViewOwnDeals")
                                       /\ DealPasses(d, filter)),
                             pagination)
            /\ \A filter \in PageTransactionFilters :
                  get_transactions(Self, caller, filter, pagination) =
                      PageOf(Listed(transactions,
                                    LAMBDA t : TransactionPasses(t, filter)),
                             pagination)

\* a filter whose fields are all unset constrains nothing
UnsetFiltersPassAll ==
    \A caller \in PageCallers, pagination \in PagePaginations :
        /\ get_contacts(Self, caller,
                        Some([status |-> None, source |-> None, search |-> None]),
                        pagination)
              = get_contacts(Self, caller, None, pagination)
        /\ get_deals(Self, caller, Some([stage |-> None, contact_id |-> None]),
                     pagination)
              = get_deals(Self, caller, None, pagination)
        /\ get_transactions(Self, caller,
                            Some([transaction_type |-> None, category |-> None,
                                  from_date |-> None, to_date |-> None]),
                            pagination)
              = get_transactions(Self, caller, None, pagination)

\* C25: for get_contacts, get_deals and get_transactions, with F the records
\* passing row-level security and the set filters in ascending id order, the
\* items are F[offset .. offset+limit) (empty when offset >= |F|), total is
\* |F|, offset and limit are echoed (0 and 50 when absent), and unset filter
\* fields constrain nothing -- for every offset and limit a caller can send.
C25_PageIsSliceOfFiltered ==
    PagesAreSlices(PagePaginations) /\ UnsetFiltersPassAll

\* the same for the offsets and limits that fit in usize
PageIsSliceWithinUsize ==
    /\ PagesAreSlices({p \in PagePaginations :
          p # None =>
             /\ UnwrapOr(Unwrap(p).offset, 0) < USIZE_MODULUS
             /\ UnwrapOr(Unwrap(p).limit, 0) < USIZE_MODULUS})
    /\ UnsetFiltersPassAll

-----------------------------------------------------------------------------
(* SpecActivity: who may log activity.  ctrl adds and removes the admin     *)
(* alice and registers or unregisters bob under roles log_activity admits   *)
(* and under one it does not; everybody calls log_activity.                 *)

ActivityRoles == {"frontend", "auth-service", "user-service", "governance"}

NextActivity ==
    \/ AddAdmin("ctrl", "alice")
    \/ RemoveAdmin("ctrl", "alice")
    \/ \E role \in ActivityRoles : RegisterAuthorizedCanister("ctrl", role, "bob")
    \/ \E role \in ActivityRoles : UnregisterAuthorizedCanister("ctrl", role)
    \/ \E caller \in Principals : LogActivity(caller, "u1", "login", None)

SpecActivity == Init /\ [][NextActivity]_vars

(* Properties of the log_activity guard (under SpecActivity) *)

\* an admin, a controller, or the identity registered under one of the three
\* roles
MayLogActivity(caller) ==
    \/ VecContains(admins, caller)
    \/ VecContains(controllers, caller)
    \/ \E role \in {"user-service", "auth-service", "frontend"} :
          Registered(role, caller)

\* C26: log_activity is accepted only from an admin or controller or the
\* identity registered under "user-service", "auth-service" or "frontend";
\* any other caller, anonymous or registered under another role included,
\* gets the Unauthorized error and nothing changes: no activity record, no
\* rate-limit bucket.
C26_LogActivityOnlyForAdminOrThreeRoles ==
    \A caller \in GuardCallers :
        LET r == log_activity(Self, caller, "u1", "login", None)
        IN IF MayLogActivity(caller)
           THEN r.ret # Err("Unauthorized: Requires admin or authorized canister access")
           ELSE /\ r.ret = Err("Unauthorized: Requires admin or authorized canister access")
                /\ r.s = Self

\* bob and alice logged activity while bob was registered under an admitted
\* role and alice was an admin; now bob is registered under "governance"
\* alone and alice is no admin, and both are refused
C26_Witness ==
    /\ Registered("governance", "bob")
    /\ ~MayLogActivity("bob") /\ ~MayLogActivity("alice")
    /\ accepted_calls["bob"] # <<>> /\ accepted_calls["alice"] # <<>>
    /\ ~IsOk(log_activity(Self, "bob", "u1", "login", None).ret)
    /\ ~IsOk(log_activity(Self, "alice", "u1", "login", None).ret)
    /\ IsOk(log_activity(Self, "ctrl", "u1", "login", None).ret)

-----------------------------------------------------------------------------
(* SpecOwner: records under updates, permission and admin changes and an    *)
(* upgrade.  ctrl adds and removes the admin bob and grants or revokes its  *)
(* edit capabilities; both create and update contacts and deals.            *)

OwnerPermissions == {"EditAllContacts", "EditAllDeals"}

NextOwner ==
    \/ AddAdmin("ctrl", "bob")
    \/ RemoveAdmin("ctrl", "bob")
    \/ \E permission \in OwnerPermissions : GrantPermission("ctrl", "bob", permission)
    \/ \E permission \in OwnerPermissions : RevokePermission("ctrl", "bob", permission)
    \/ \E caller \in EditCallers, request \in EditContactRequests :
            CreateContact(caller, request)
    \/ \E caller \in EditCallers : CreateDeal(caller, CreateDealRequest(1, None))
    \/ \E caller \in EditCallers, request \in UpdateContactRequests :
            UpdateContact(caller, request)
    \/ \E caller \in EditCallers, request \in UpdateDealRequests :
            UpdateDeal(caller, request)
    \/ \E caller \in EditCallers, id \in 1..MaxDeals :
            UpdateDealStage(caller, id, "ClosedWon")
    \/ Upgrade

SpecOwner == Init /\ [][NextOwner]_vars

(* Properties of record ownership (under SpecOwner) *)

\* a record created by an accepted call carries the caller as owner (and, for
\* a deal, as creator)
OwnerIsCreator ==
    \A caller \in GuardCallers :
        /\ \A request \in CreateContactRequests :
              LET r == create_contact(Self, caller, request)
              IN IsOk(r.ret) =>
                    /\ r.ret[2].owner_id = Some(caller)
                    /\ r.s.contacts[r.ret[2].id].owner_id = Some(caller)
        /\ \A request \in CreateContactRequests :
              LET r == create_contact_from_signup(Self, caller, request)
              IN IsOk(r.ret) =>
                    /\ r.s.contacts[r.ret[2].id].owner_id = Some(caller)
                    /\ \A d \in DOMAIN r.s.deals \ DOMAIN deals :
                          /\ r.s.deals[d].owner_id = Some(caller)
                          /\ r.s.deals[d].created_by = Some(caller)
        /\ \A request \in CreateDealRequests :
              LET r == create_deal(Self, caller, request)
              IN IsOk(r.ret) =>
                    /\ r.s.deals[r.ret[2].id].owner_id = Some(caller)
                    /\ r.s.deals[r.ret[2].id].created_by = Some(caller)

\* a step leaves the owner of every contact and the owner and creator of every
\* deal that has one as they were
OwnersKept ==
    /\ \A id \in DOMAIN contacts \cap DOMAIN contacts' :
          contacts[id].owner_id # None =>
              contacts'[id].owner_id = contacts[id].owner_id
    /\ \A id \in DOMAIN deals \cap DOMAIN deals' :
          /\ deals[id].owner_id # None =>
                deals'[id].owner_id = deals[id].owner_id
          /\ deals[id].created_by # None =>
                deals'[id].created_by = deals[id].created_by

\* C27: the owner of a contact or deal (and the creator of a deal) is the
\* caller that created it, and no update_contact, update_deal,
\* update_deal_stage, permission change, admin change or upgrade changes it.
C27_OwnerSetAtCreationNeverChanges ==
    []OwnerIsCreator /\ [][OwnersKept]_vars

\* after an upgrade, bob, no longer an admin, still owns the contact and the
\* deal it created, both updated since by ctrl
C27_Witness ==
    /\ upgrade_count = 1
    /\ ~VecContains(admins, "bob")
    /\ \E c \in DOMAIN contacts :
          /\ contacts[c].owner_id = Some("bob")
          /\ contacts[c].status = "Churned"
    /\ \E d \in DOMAIN deals :
          /\ deals[d].owner_id = Some("bob") /\ deals[d].created_by = Some("bob")
          /\ deals[d].stage = "ClosedWon" /\ deals[d].value = Some(7)

(* Properties of a rejected rate-limited call (under SpecRate) *)

\* the timestamps of a bucket that a check at time t does not expire
Unexpired(bucket, t) ==
    SelectSeq(bucket, LAMBDA ts : ts + RATE_LIMIT_WINDOW_NS >= t)

BucketOf(buckets, caller) ==
    IF caller \in DOMAIN buckets THEN buckets[caller] ELSE <<>>

RateLimited(r) ==
    /\ ~IsOk(r.ret)
    /\ r.ret # Err("Unauthorized: Requires admin or authorized canister access")

\* C28: a log_activity call rejected by the rate limiter is not recorded: the
\* caller's bucket holds exactly the unexpired timestamps it held before, the
\* activity log and everything else are unchanged, and at every later time
\* the bucket counts the same calls as it would have without the rejected one.
C28_RejectedCallNotRecorded ==
    \A caller \in Principals :
        LET r == log_activity(Self, caller, "u1", "login", None)
            before == BucketOf(rate_limit_buckets, caller)
        IN RateLimited(r) =>
              /\ BucketOf(r.s.rate_limit_buckets, caller) = Unexpired(before, now)
              /\ r.s = [Self EXCEPT !.rate_limit_buckets =
                                        MapInsert(@, caller, Unexpired(before, now))]
              /\ r.s.activity_log = activity_log
              /\ \A t \in now..MaxTime :
                    Unexpired(BucketOf(r.s.rate_limit_buckets, caller), t)
                        = Unexpired(before, t)

\* ctrl was rejected before and, half a window later, is rejected again with
\* a bucket that holds the maximum of unexpired calls
C28_Witness ==
    /\ "ctrl" \in rejected_callers
    /\ now > 0
    /\ Len(BucketOf(rate_limit_buckets, "ctrl")) = RATE_LIMIT_MAX_CALLS
    /\ RateLimited(log_activity(Self, "ctrl", "u1", "login", None))

-----------------------------------------------------------------------------
(* SpecUpdate: partial updates under an advancing clock.  The controller    *)
(* creates contacts and deals and updates some of their fields.             *)

\* an UpdateContactRequest with every field
ContactPatch(id, name, company, job_title, interest_area, notes, status) ==
    [id |-> id, name |-> name, company |-> company, job_title |-> job_title,
     interest_area |-> interest_area, notes |-> notes, status |-> status]

\* an UpdateDealRequest with every field
DealPatch(id, name, value, stage, notes, expected_close_date) ==
    [id |-> id, name |-> name, value |-> value, stage |-> stage,
     notes |-> notes, expected_close_date |-> expected_close_date]

\* every combination of present and absent fields
ContactPatches ==
    {ContactPatch(id, name, company, job_title, interest_area, notes, status) :
        id \in 1..MaxContacts,
        name \in {None, Some(<<"N">>)}, company \in {None, Some(<<"C">>)},
        job_title \in {None, Some("cto")}, interest_area \in {None, Some("dao")},
        notes \in {None, Some("note")}, status \in {None, Some("Churned")}}

DealPatches ==
    {DealPatch(id, name, value, stage, notes, expected_close_date) :
        id \in 1..MaxDeals,
        name \in {None, Some("renamed")}, value \in {None, Some(7)},
        stage \in {None, Some("ClosedWon")}, notes \in {None, Some("note")},
        expected_close_date \in {None, Some(90)}}

\* the updates the controller makes
UpdateSteps ==
    {ContactPatch(1, Some(<<"N">>), None, None, None, None, None),
     ContactPatch(1, None, Some(<<"C">>), None, None, Some("note"), Some("Churned"))}

DealUpdateSteps ==
    {DealPatch(1, Some("renamed"), None, None, None, None),
     DealPatch(1, None, Some(7), Some("ClosedWon"), None, Some(90))}

\* the contacts created carry a name
NamedContactRequests == {request \in CreateContactRequests : IsSome(request.name)}

\* the controller, and a caller that is refused
UpdateCallers == {"ctrl", "anonymous"}

NextUpdate ==
    \/ \E request \in NamedContactRequests : CreateContact("ctrl", request)
    \/ CreateDeal("ctrl", CreateDealRequest(1, None))
    \/ \E request \in UpdateSteps : UpdateContact("ctrl", request)
    \/ \E request \in DealUpdateSteps : UpdateDeal("ctrl", request)
    \/ Tick(61)

SpecUpdate == Init /\ [][NextUpdate]_vars

(* Properties of the partial updates (under SpecUpdate) *)

\* a field stored as an Option takes the requested Option when it is present
PatchedOption(old, new, requested) ==
    new = IF requested = None THEN old ELSE requested

\* a field stored as a value takes the requested value when it is present
PatchedValue(old, new, requested) ==
    new = IF requested = None THEN old ELSE requested[1]

ContactPatched(old, new, request) ==
    /\ PatchedOption(old.name, new.name, request.name)
    /\ PatchedOption(old.company, new.company, request.company)
    /\ PatchedOption(old.job_title, new.job_title, request.job_title)
    /\ PatchedOption(old.interest_area, new.interest_area, request.interest_area)
    /\ PatchedOption(old.notes, new.notes, request.notes)
    /\ PatchedValue(old.status, new.status, request.status)
    /\ new.updated_at = now
    /\ \A field \in {"id", "email", "user_id", "source", "owner_id", "team_id",
                     "created_at"} : new[field] = old[field]

DealPatched(old, new, request) ==
    /\ PatchedValue(old.name, new.name, request.name)
    /\ PatchedOption(old.value, new.value, request.value)
    /\ PatchedValue(old.stage, new.stage, request.stage)
    /\ PatchedOption(old.notes, new.notes, request.notes)
    /\ PatchedOption(old.expected_close_date, new.expected_close_date,
                     request.expected_close_date)
    /\ new.updated_at = now
    /\ \A field \in {"id", "contact_id", "owner_id", "created_by", "created_at"} :
          new[field] = old[field]

\* C29: an accepted update_contact or update_deal gives each field present in
\* the request the requested value, keeps each absent field, sets updated_at
\* to now, never changes id, email, user reference, source, owner, creator,
\* contact_id or created_at, and leaves the other records and the secondary
\* indexes as they were.
C29_UpdatesArePartial ==
    \A caller \in UpdateCallers :
        /\ \A request \in ContactPatches :
              LET r == update_contact(Self, caller, request)
              IN IsOk(r.ret) =>
                    /\ ContactPatched(contacts[request.id], r.ret[2], request)
                    /\ r.s.contacts =
                          [contacts EXCEPT ![request.id] = r.ret[2]]
                    /\ r.s.contacts_by_email = contacts_by_email
                    /\ r.s.contacts_by_user = contacts_by_user
                    /\ r.s.deals = deals
                    /\ r.s.deals_by_contact = deals_by_contact
        /\ \A request \in DealPatches :
              LET r == update_deal(Self, caller, request)
              IN IsOk(r.ret) =>
                    /\ DealPatched(deals[request.id], r.ret[2], request)
                    /\ r.s.deals = [deals EXCEPT ![request.id] = r.ret[2]]
                    /\ r.s.deals_by_contact = deals_by_contact
                    /\ r.s.contacts = contacts
                    /\ r.s.contacts_by_email = contacts_by_email
                    /\ r.s.contacts_by_user = contacts_by_user

\* contact 1 and deal 1 were updated after the clock advanced: the fields of
\* the requests are set, the name the contact was created with and the fields
\* no request named are kept, and a further update by the controller is accepted
C29_Witness ==
    /\ 1 \in DOMAIN contacts /\ 1 \in DOMAIN deals
    /\ contacts[1].updated_at > contacts[1].created_at
    /\ contacts[1].status = "Churned" /\ contacts[1].company = Some(<<"C">>)
    /\ contacts[1].name = Some(<<"A", "b">>) /\ contacts[1].job_title = None
    /\ deals[1].updated_at > deals[1].created_at
    /\ deals[1].name = "renamed" /\ deals[1].value = None
    /\ IsOk(update_deal(Self, "ctrl", DealPatch(1, None, Some(7), None, None, None)).ret)

(* Properties of updates and deletes of a missing record (under SpecEdit) *)

\* an identity of the admin list or of the controller list
AdminOrController(caller) ==
    VecContains(admins, caller) \/ VecContains(controllers, caller)

\* the call was refused with this error and wrote nothing
NotFound(r, message) == r.ret = Err(message) /\ r.s = Self

\* C30: update_contact, delete_contact, update_deal, update_deal_stage and
\* delete_deal called by an admin on an id that is not in the store return
\* "Contact not found" or "Deal not found" whatever capabilities the caller
\* holds, and change nothing: no record, index, counter or audit entry.
C30_MissingIdNotFoundNoChange ==
    \A caller \in GuardCallers :
        AdminOrController(caller) =>
            /\ \A request \in UpdateContactRequests :
                  request.id \notin DOMAIN contacts =>
                      NotFound(update_contact(Self, caller, request),
                               "Contact not found")
            /\ \A id \in ContactIds \ DOMAIN contacts :
                  NotFound(delete_contact(Self, caller, id), "Contact not found")
            /\ \A request \in UpdateDealRequests :
                  request.id \notin DOMAIN deals =>
                      NotFound(update_deal(Self, caller, request), "Deal not found")
            /\ \A id \in DealIds \ DOMAIN deals :
                  /\ NotFound(update_deal_stage(Self, caller, id, "ClosedWon"),
                              "Deal not found")
                  /\ NotFound(delete_deal(Self, caller, id), "Deal not found")

\* contact 1 and deal 1 were created and deleted; bob, an admin that holds no
\* edit or delete capability for deals, is told that the deal is not found
C30_Witness ==
    /\ next_contact_id > 1 /\ 1 \notin DOMAIN contacts
    /\ next_deal_id > 1 /\ 1 \notin DOMAIN deals
    /\ VecContains(admins, "bob")
    /\ \A permission \in {"EditAllDeals", "EditOwnDeals", "DeleteAllDeals",
                          "DeleteOwnDeals"} :
          ~has_permission(Self, "bob", permission)
    /\ update_deal_stage(Self, "bob", 1, "ClosedWon").ret = Err("Deal not found")
    /\ delete_deal(Self, "bob", 1).ret = Err("Deal not found")
    /\ delete_contact(Self, "bob", 1).ret = Err("Contact not found")

(* Properties of the removal of deals (under SpecEdit) *)

\* the ownership+permission rule for an operation on a record
RuleAllows(caller, record, op_all, op_own) ==
    \/ has_permission(Self, caller, op_all)
    \/ /\ has_permission(Self, caller, op_own)
       /\ record.owner_id = Some(caller)

\* the deals a call removed
RemovedDeals(r) == DOMAIN deals \ DOMAIN r.s.deals

\* delete_deal removes a deal only under the delete rule applied to that deal,
\* and the creates and updates remove none
DealsRemovedByDeleteDealOnly(caller) ==
    /\ \A id \in DealIds :
          \A d \in RemovedDeals(delete_deal(Self, caller, id)) :
              /\ d = id
              /\ RuleAllows(caller, deals[d], "DeleteAllDeals", "DeleteOwnDeals")
    /\ \A request \in CreateContactRequests :
          RemovedDeals(create_contact(Self, caller, request)) = {}
    /\ \A request \in UpdateContactRequests :
          RemovedDeals(update_contact(Self, caller, request)) = {}
    /\ \A request \in CreateDealRequests :
          RemovedDeals(create_deal(Self, caller, request)) = {}
    /\ \A request \in UpdateDealRequests :
          RemovedDeals(update_deal(Self, caller, request)) = {}
    /\ \A id \in DealIds :
          RemovedDeals(update_deal_stage(Self, caller, id, "ClosedWon")) = {}

\* C31 (as the code has it): delete_deal removes a deal only when the caller
\* holds DeleteAllDeals, or DeleteOwnDeals and owns the deal; the cascade of
\* delete_contact removes the deals of the contact when the caller holds
\* DeleteAllContacts, or DeleteOwnContacts and owns the contact, whoever owns
\* the deals and whatever deal capabilities the caller holds.
C31_DealsRemovedUnderDealOrContactRule ==
    \A caller \in GuardCallers :
        /\ DealsRemovedByDeleteDealOnly(caller)
        /\ \A id \in ContactIds :
              \A d \in RemovedDeals(delete_contact(Self, caller, id)) :
                  /\ deals[d].contact_id = id
                  /\ RuleAllows(caller, contacts[id], "DeleteAllContacts",
                                "DeleteOwnContacts")

\* C31 (as stated): every removal of a deal, the cascade included, is under
\* the delete rule applied to the deal.
C31_DealsRemovedUnderDealRule ==
    \A caller \in GuardCallers :
        /\ DealsRemovedByDeleteDealOnly(caller)
        /\ \A id \in ContactIds :
              \A d \in RemovedDeals(delete_contact(Self, caller, id)) :
                  RuleAllows(caller, deals[d], "DeleteAllDeals", "DeleteOwnDeals")

\* bob may delete the contacts it owns and holds no delete capability for
\* deals; its delete of its contact 1 removes a deal that ctrl owns, which its
\* delete_deal refuses to remove
C31_Witness ==
    /\ 1 \in DOMAIN contacts /\ contacts[1].owner_id = Some("bob")
    /\ has_permission(Self, "bob", "DeleteOwnContacts")
    /\ ~has_permission(Self, "bob", "DeleteAllDeals")
    /\ ~has_permission(Self, "bob", "DeleteOwnDeals")
    /\ \E d \in DOMAIN deals :
          /\ deals[d].contact_id = 1 /\ deals[d].owner_id = Some("ctrl")
          /\ d \in RemovedDeals(delete_contact(Self, "bob", 1))
          /\ ~IsOk(delete_deal(Self, "bob", d).ret)

(* Properties of the reads by key (under SpecView) *)

\* the read returned a record
Returned(r) == IsOk(r) /\ r[2] # None

\* C32: get_contact, get_contact_by_email and get_deal return a record only
\* to a caller that holds the view-all capability of its entity type, or
\* holds view-own and is the record's owner.
C32_KeyedReadsFollowRowLevelSecurity ==
    \A caller \in GuardCallers :
        /\ \A id \in ContactIds :
              LET r == get_contact(Self, caller, id)
              IN Returned(r) =>
                    RuleAllows(caller, Unwrap(r[2]), "ViewAllContacts",
                               "ViewOwnContacts")
        /\ \A email \in Emails :
              LET r == get_contact_by_email(Self, caller, email)
              IN Returned(r) =>
                    RuleAllows(caller, Unwrap(r[2]), "ViewAllContacts",
                               "ViewOwnContacts")
        /\ \A id \in DealIds :
              LET r == get_deal(Self, caller, id)
              IN Returned(r) =>
                    RuleAllows(caller, Unwrap(r[2]), "ViewAllDeals", "ViewOwnDeals")

-----------------------------------------------------------------------------
(* SpecDefaults: the default capabilities.  ctrl adds admins, grants and    *)
(* revokes capabilities, and seeds the defaults of every admin.             *)

DefaultsPrincipals == {"alice", "bob"}

DefaultsPermissions == {"ViewOwnContacts", "DeleteAllDeals"}

NextDefaults ==
    \/ \E principal \in DefaultsPrincipals : AddAdmin("ctrl", principal)
    \/ \E principal \in DefaultsPrincipals, permission \in DefaultsPermissions :
            GrantPermission("ctrl", principal, permission)
    \/ \E principal \in DefaultsPrincipals, permission \in DefaultsPermissions :
            RevokePermission("ctrl", principal, permission)
    \/ \E caller \in Principals : GrantDefaultPermissionsToAllAdmins(caller)

SpecDefaults == Init /\ [][NextDefaults]_vars

(* Properties of the default capabilities (under SpecDefaults) *)

DefaultPermissions ==
    {"ViewOwnContacts", "EditOwnContacts", "ViewOwnDeals", "EditOwnDeals"}

\* how often a capability occurs in a list of grants
Occurrences(grants, permission) ==
    Cardinality({i \in DOMAIN grants : grants[i] = permission})

\* C33: for every identity of the admin list, controllers included,
\* grant_default_permissions leaves its stored grants with each of the four
\* own-record capabilities exactly once and every other capability as often
\* as before, and a second call changes nothing.
C33_DefaultsSeededOnce ==
    \A principal \in VecRange(admins) :
        LET once == grant_default_permissions(Self, principal)
            old == State_get_permissions(Self, principal)
            new == State_get_permissions(once, principal)
        IN /\ \A permission \in DefaultPermissions :
                 Occurrences(new, permission) = 1
           /\ \A permission \in AdminPermission \ DefaultPermissions :
                 Occurrences(new, permission) = Occurrences(old, permission)
           /\ grant_default_permissions(once, principal) = once

-----------------------------------------------------------------------------
(* SpecAwait: add_admin with its await.  A caller that is no local          *)
(* controller is suspended at canister_status; the management canister      *)
(* answers with the controller list it holds then, or rejects; the call     *)
(* resumes on the reply.  Meanwhile the controller list of the canister     *)
(* changes and other calls run.                                             *)

AwaitCallers == {"ctrl", "alice"}

\* the controller lists the canister's settings go through
AuthorityLists == {<<"ctrl">>, <<"ctrl", "alice">>, <<"alice">>}

\* add_admin up to the await (lib.rs:148-149, 68-81): a local controller is
\* served at once, any other caller is suspended
AddAdminCalled(caller, principal) ==
    /\ \A call \in awaiting : call.caller # caller
    /\ IF is_controller(Self, caller)
       THEN /\ Commit(State_add_admin(Self, principal))
            /\ UNCHANGED awaiting
       ELSE /\ Commit(Self)
            /\ awaiting' = awaiting \cup
                  {[caller |-> caller, principal |-> principal,
                    suspended_on |-> Self, reply |-> None]}
    /\ UNCHANGED <<now, canister_controllers, History>>

\* the management canister serves canister_status
CanisterStatusAnswered(call, reply) ==
    /\ call \in awaiting /\ call.reply = None
    /\ awaiting' = (awaiting \ {call}) \cup {[call EXCEPT !.reply = Some(reply)]}
    /\ Commit(Self)
    /\ UNCHANGED <<now, canister_controllers, History>>

\* add_admin from the await on (lib.rs:81-90, 151-156)
AddAdminResumed(call) ==
    /\ call \in awaiting /\ call.reply # None
    /\ LET rc == require_controller_resumed(Self, call.caller, Unwrap(call.reply))
       IN Commit(IF IsOk(rc.ret) THEN State_add_admin(rc.s, call.principal)
                 ELSE rc.s)
    /\ awaiting' = awaiting \ {call}
    /\ UNCHANGED <<now, canister_controllers, History>>

\* the controllers of the canister are changed at the management canister
ControllersChanged(list) ==
    /\ canister_controllers' = list
    /\ Commit(Self)
    /\ UNCHANGED <<now, History, awaiting>>

NextAwait ==
    \/ \E caller \in AwaitCallers : AddAdminCalled(caller, "bob")
    \/ \E call \in awaiting :
            CanisterStatusAnswered(call, Ok(canister_controllers))
    \/ \E call \in awaiting : CanisterStatusAnswered(call, Err("rejected"))
    \/ \E call \in awaiting : AddAdminResumed(call)
    \/ \E list \in AuthorityLists : ControllersChanged(list)
    \/ \E request \in EditContactRequests : CreateContact("ctrl", request)
    \/ RemoveAdmin("ctrl", "bob")

SpecAwait == Init /\ [][NextAwait]_vars

(* Properties of the controller check (under SpecAwait) *)

\* the outcome `r` of a controller-only call whose effect on the State is Op
ControllerGuarded(r, caller, Op(_)) ==
    IF VecContains(controllers, caller)
    THEN r = [s |-> Op(Self), ret |-> Ok(None)]
    ELSE IF VecContains(canister_controllers, caller)
    THEN r = [s |-> Op([Self EXCEPT !.controllers = canister_controllers]),
              ret |-> Ok(None)]
    ELSE r = [s |-> Self,
              ret |-> Err("Unauthorized: Only controllers can perform this action")]

C35_NoMutationWhileSuspended ==
    \A call \in awaiting : call.suspended_on = Self

(* Properties of set_feature_flag (under SpecFlags) *)

\* the requests of the flag table, with and without a description
UpsertRequests ==
    FlagTableRequests \cup
    {[request EXCEPT !.description = Some("about")] : request \in FlagTableRequests}

\* a request that names every optional field
FullFlagRequest(key) ==
    [key |-> key, enabled |-> TRUE, description |-> Some("before"),
     percentage |-> Some(50), allowed_principals |-> Some(<<"alice", "bob">>)]

\* the flag a request describes
Upserted(flag, request) ==
    /\ DOMAIN flag = {"key", "enabled", "description", "percentage",
                      "allowed_principals", "updated_at"}
    /\ flag.key = request.key
    /\ flag.enabled = request.enabled
    /\ flag.description = request.description
    /\ flag.percentage = request.percentage
    /\ flag.allowed_principals =
          IF request.allowed_principals = None THEN <<>>
          ELSE request.allowed_principals[1]
    /\ flag.updated_at = now

\* the outcome `r` of set_feature_flag(request) on the flag table `table`
UpsertOf(r, table, request) ==
    IsOk(r.ret) =>
        /\ DOMAIN r.s.feature_flags = DOMAIN table \cup {request.key}
        /\ Upserted(r.s.feature_flags[request.key], request)
        /\ \A key \in DOMAIN table \ {request.key} :
              r.s.feature_flags[key] = table[key]

\* C36: after a successful set_feature_flag the stored flag of the key has
\* exactly the enabled value, description, percentage and allow-list of the
\* request (an absent allow-list is empty, an absent percentage or description
\* is none), whatever was stored for the key before, and the flags of other
\* keys are unchanged.
C36_SetFeatureFlagFullUpsert ==
    \A caller \in GuardCallers, request \in UpsertRequests :
        /\ UpsertOf(set_feature_flag(Self, caller, request), feature_flags, request)
        /\ LET before == set_feature_flag(Self, caller, FullFlagRequest(request.key))
           IN IsOk(before.ret) =>
                 UpsertOf(set_feature_flag(before.s, caller, request),
                          before.s.feature_flags, request)

\* both keys are set, "beta" with a percentage and an allow-list; a request
\* for "beta" that names neither is accepted and leaves the flag without them
C36_Witness ==
    /\ DOMAIN feature_flags = {"beta", "dark"}
    /\ feature_flags["beta"].percentage # None
    /\ feature_flags["beta"].allowed_principals # <<>>
    /\ LET request == [key |-> "beta", enabled |-> FALSE, description |-> None,
                       percentage |-> None, allowed_principals |-> None]
           r == set_feature_flag(Self, "ctrl", request)
       IN /\ IsOk(r.ret)
          /\ r.s.feature_flags["beta"].percentage = None
          /\ r.s.feature_flags["beta"].allowed_principals = <<>>
          /\ r.s.feature_flags["dark"] = feature_flags["dark"]

-----------------------------------------------------------------------------
(* Properties of get_audit_log (under SpecEdit) *)

AuditActionFilters == {None, Some("create_contact"), Some("delete_deal")}
AuditTargetFilters == {None, Some("contact"), Some("deal")}
AuditActorFilters == {None, Some("ctrl"), Some("bob")}
AuditLimits == {None, Some(0), Some(1), Some(USIZE_MODULUS), Some(USIZE_MODULUS + 1)}

\* the positions of the retained audit entries that satisfy every set filter
Matching(action_filter, target_type_filter, actor_filter) ==
    {i \in DOMAIN audit_log :
        /\ action_filter # None => audit_log[i].action = action_filter[1]
        /\ target_type_filter # None => audit_log[i].target_type = target_type_filter[1]
        /\ actor_filter # None => audit_log[i].actor = actor_filter[1]}

\* `page` holds the first `limit` (100 when absent) of the entries at
\* `matching`, the newest first, by strictly decreasing audit id
NewestFirst(page, matching, limit) ==
    LET n == IF limit = None THEN 100 ELSE limit[1]
    IN /\ Len(page) = IF n < Cardinality(matching) THEN n ELSE Cardinality(matching)
       /\ \A k \in DOMAIN page :
             \E i \in matching :
                /\ Cardinality({j \in matching : j > i}) = k - 1
                /\ page[k] = audit_log[i]
       /\ \A k \in 1..(Len(page) - 1) : page[k].id > page[k + 1].id

AuditLogNewestFirst(limits) ==
    \A caller \in GuardCallers, a \in AuditActionFilters, t \in AuditTargetFilters,
       p \in AuditActorFilters, limit \in limits :
        LET r == get_audit_log(Self, caller, a, t, p, limit)
        IN IsOk(r) => NewestFirst(r[2], Matching(a, t, p), limit)

\* C37: get_audit_log returns the retained audit entries that satisfy every
\* set filter, the newest first (strictly decreasing audit id), truncated to
\* the first `limit` entries (100 when the limit is absent); an unset filter
\* imposes no constraint.
C37_AuditLogNewestFirstUpToLimit ==
    AuditLogNewestFirst(AuditLimits)

\* the same for the limits that fit in usize
AuditLogNewestFirstWithinUsize ==
    AuditLogNewestFirst({l \in AuditLimits : l # None => l[1] < USIZE_MODULUS})

-----------------------------------------------------------------------------
(* SpecRestore: every family of state is populated by the controller, then  *)
(* the canister is upgraded, with or without a snapshot to restore.         *)

NextRestore ==
    \/ AddAdmin("ctrl", "alice")
    \/ \E request \in EditContactRequests : CreateContact("ctrl", request)
    \/ CreateDeal("ctrl", CreateDealRequest(1, None))
    \/ \E request \in TransactionRequests : CreateTransaction("ctrl", request)
    \/ \E request \in FlagRequests : SetFeatureFlag("ctrl", request)
    \/ \E snapshot \in MetricsSnapshots : RecordMetrics("ctrl", snapshot)
    \/ LogActivity("ctrl", "u1", "login", None)
    \/ Upgrade
    \/ UpgradeWithoutSnapshot

SpecRestore == Init /\ [][NextRestore]_vars

(* Properties of post_upgrade without a snapshot (under SpecRestore) *)

EmptyStore ==
    /\ DOMAIN contacts = {} /\ DOMAIN deals = {} /\ DOMAIN transactions = {}
    /\ DOMAIN feature_flags = {}
    /\ audit_log = <<>> /\ activity_log = <<>> /\ metrics_history = <<>>
    /\ controllers = <<>> /\ admins = <<>>
    /\ next_contact_id = 1 /\ next_deal_id = 1
    /\ next_transaction_id = 1 /\ next_audit_log_id = 1

\* C38: when no snapshot can be restored at post_upgrade the store is
\* initialized empty instead of failing: no contacts, deals, transactions,
\* flags or log entries, empty controller and admin sets, and all four id
\* counters at 1.
C38_MissingSnapshotGivesEmptyStore ==
    [][UpgradeWithoutSnapshot => EmptyStore']_vars

\* an upgrade has run and left no admin, which only the upgrade without a
\* snapshot does; the calls accepted before it are on record
C38_Witness ==
    /\ upgrade_count = 1
    /\ admins = <<>>
    /\ EmptyStore
    /\ accepted_before_upgrade["ctrl"] > 0

-----------------------------------------------------------------------------
(* Properties of the sweep of the rate-limit buckets (under SpecRate) *)

\* whether the bucket holds a timestamp of the last window
Recent(bucket) ==
    \E i \in DOMAIN bucket : bucket[i] + RATE_LIMIT_WINDOW_NS >= now

\* C39: the sweep (cleanup_rate_limits) removes exactly the buckets that have
\* no timestamp >= now - 60 s and leaves every remaining bucket non-empty, with
\* only its timestamps >= now - 60 s, in their original order; it changes
\* nothing else and never changes the outcome of a later rate-limit check;
\* the buckets are not part of the snapshot, so after an upgrade every bucket
\* is empty.
C39_SweepRemovesStaleBucketsOnly ==
    LET swept == cleanup_rate_limits(Self)
    IN /\ DOMAIN swept.rate_limit_buckets =
              {p \in DOMAIN rate_limit_buckets : Recent(rate_limit_buckets[p])}
       /\ \A p \in DOMAIN swept.rate_limit_buckets :
             /\ swept.rate_limit_buckets[p] # <<>>
             /\ swept.rate_limit_buckets[p] = Unexpired(rate_limit_buckets[p], now)
       /\ swept = [Self EXCEPT !.rate_limit_buckets = swept.rate_limit_buckets]
       /\ \A caller \in Principals :
             /\ check_rate_limit(swept, caller).ret = check_rate_limit(Self, caller).ret
             /\ BucketOf(check_rate_limit(swept, caller).s.rate_limit_buckets, caller)
                   = BucketOf(check_rate_limit(Self, caller).s.rate_limit_buckets,
                              caller)
             /\ \A t \in now..MaxTime :
                   Unexpired(BucketOf(swept.rate_limit_buckets, caller), t)
                       = Unexpired(BucketOf(rate_limit_buckets, caller), t)
       /\ DOMAIN upgrade(Self).rate_limit_buckets = {}

\* bob's bucket holds only expired calls and ctrl's an expired and a recent
\* one: the sweep removes the first and shortens the second
C39_Witness ==
    /\ DOMAIN rate_limit_buckets = {"bob", "ctrl"}
    /\ ~Recent(rate_limit_buckets["bob"])
    /\ Len(Unexpired(rate_limit_buckets["ctrl"], now)) \in
           1..(Len(rate_limit_buckets["ctrl"]) - 1)
    /\ DOMAIN cleanup_rate_limits(Self).rate_limit_buckets = {"ctrl"}

-----------------------------------------------------------------------------
(* Properties of the secondary indexes (under Spec) *)

\* C40: no secondary index entry dangles, in any reachable state: every value
\* of the email index and of the user-reference index is the id of a contact
\* in the store whose lowercased email (resp. user reference) equals the key,
\* and every id listed in the contact->deal-ids index is the id of a deal in
\* the store whose contact_id is that key, listed at most once.
C40_NoIndexEntryDangles ==
    /\ \A email \in DOMAIN contacts_by_email :
          LET id == contacts_by_email[email]
          IN /\ id \in DOMAIN contacts
             /\ to_lowercase(contacts[id].email) = email
    /\ \A user \in DOMAIN contacts_by_user :
          LET id == contacts_by_user[user]
          IN /\ id \in DOMAIN contacts
             /\ contacts[id].user_id = Some(user)
    /\ \A c \in DOMAIN deals_by_contact :
          LET listed == deals_by_contact[c]
          IN /\ \A i \in DOMAIN listed :
                   /\ listed[i] \in DOMAIN deals
                   /\ deals[listed[i]].contact_id = c
             /\ \A i, j \in DOMAIN listed : listed[i] = listed[j] => i = j

\* a contact and a deal have been deleted while the three indexes still hold
\* entries, one of them for a contact created with an upper-case email
C40_Witness ==
    /\ next_contact_id > Cardinality(DOMAIN contacts) + 1
    /\ next_deal_id > Cardinality(DOMAIN deals) + 1
    /\ \E email \in DOMAIN contacts_by_email :
          contacts[contacts_by_email[email]].email # email
    /\ DOMAIN contacts_by_user # {}
    /\ \E c \in DOMAIN deals_by_contact : deals_by_contact[c] # <<>>

====
